---- MODULE Spec2Model ----
(***************************************************************************)
(* Model of the vidsynt H.265 syntax layer: the byte-stream framer         *)
(* (src/h265/bytestream.rs), the NAL unit header and dispatch              *)
(* (src/h265/nalu.rs, src/h265/nalu_ref.rs) and the picture order count    *)
(* computer (src/h265/poc.rs).                                             *)
(*                                                                         *)
(* Three specifications share the variables:                               *)
(*   Spec        the framer reading one source until end of data, and the  *)
(*               conversion of the result to an Annex-B byte stream;       *)
(*   PocSpec     a PocComputer fed arbitrary pictures;                     *)
(*   PocMonoSpec a PocComputer fed pictures whose order count grows by     *)
(*               less than half the LSB range per picture.                 *)
(***************************************************************************)
EXTENDS Integers, Sequences, FiniteSets, TLC

VARIABLES
    \* ---- PocComputer (poc.rs:14-18) ----
    is_first_picture,
    ref_pic_order_cnt_msb,
    ref_pic_order_cnt_lsb,
    overflow_checks,   \* build profile: TRUE = arithmetic overflow panics, FALSE = it wraps
    last,              \* the last PocComputer call: its arguments and its outcome
    true_cnt,          \* PocMonoSpec: the order count of the last picture fed
    sps_log2_max_pic_order_cnt_lsb_minus4,  \* the session's SPS field (sps.rs), fixed
    \* ---- LengthPrefixedByteStreamContentReader (bytestream.rs:93-97) ----
    source,                \* the bytes under inner_reader
    pos,                   \* the cursor position of inner_reader
    length_size_minus_one,
    decoder,               \* content_reader: "Nalu" (NaluReader) or "NaluRef" (NaluRefReader)
    current_offset,        \* read_contents_until_eof's local
    contents,              \* read_contents_until_eof's local
    result,                \* "running", then what read_contents_until_eof returned
    last_read,             \* what the last read_content call returned
    slice_segment_offsets, \* convert_length_prefixed_to_annex_b's outputs
    annex_b_byte_stream,
    pc,
    \* ---- one call of a parser on its own (base.rs, nalu.rs, ptl.rs, vps.rs, sps.rs,
    \*      pps.rs, rps.rs, slice.rs) ----
    input,                 \* the bytes or bits under the reader
    arguments,             \* the call's other arguments
    outcome                \* what the call returned

pocVars == <<is_first_picture, ref_pic_order_cnt_msb, ref_pic_order_cnt_lsb,
             overflow_checks, last, true_cnt, sps_log2_max_pic_order_cnt_lsb_minus4>>
framerVars == <<source, pos, length_size_minus_one, decoder, current_offset,
                contents, result, last_read, slice_segment_offsets,
                annex_b_byte_stream, pc>>
parseVars == <<input, arguments, outcome>>
vars == <<pocVars, framerVars, parseVars>>

(***************************************************************************)
(* NaluType (nalu.rs:33-108): the members of the enum, by discriminant.    *)
(***************************************************************************)
TrailN == 0
TrailR == 1
RadlN == 6
RadlR == 7
RaslN == 8
RaslR == 9
RsvVclN10 == 10
RsvVclN12 == 12
RsvVclN14 == 14
BlaWLp == 16
BlaWRadl == 17
BlaNLp == 18
IdrWRadl == 19
IdrNLp == 20
CraNut == 21
RsvIrapVcl22 == 22
RsvIrapVcl23 == 23
VpsNut == 32
SpsNut == 33
PpsNut == 34
AudNut == 35

NaluType ==
    {TrailN, TrailR, RadlN, RadlR, RaslN, RaslR, RsvVclN10, RsvVclN12, RsvVclN14,
     BlaWLp, BlaWRadl, BlaNLp, IdrWRadl, IdrNLp, CraNut, RsvIrapVcl22, RsvIrapVcl23,
     VpsNut, SpsNut, PpsNut, AudNut}

is_irap(t) ==
    t \in {BlaWLp, BlaWRadl, BlaNLp, IdrWRadl, IdrNLp, CraNut, RsvIrapVcl22, RsvIrapVcl23}

is_radl(t) == t \in {RadlN, RadlR}

is_rasl(t) == t \in {RaslN, RaslR}

is_bla(t) == t \in {BlaWLp, BlaWRadl, BlaNLp}

is_idr_only_w_radl(t) == t \in {IdrWRadl}

is_idr(t) == t \in {IdrWRadl, IdrNLp}

\* nalu.rs:170-177.
is_reference(t) == IF t < 16 THEN t % 2 = 1 ELSE TRUE

\* nalu.rs:179-184: the types the `matches!` lists.
is_coded_slice_segment(t) ==
    t \in {TrailN, TrailR, RadlN, RadlR, RaslN, RaslR, BlaWLp, BlaWRadl, BlaNLp,
           IdrWRadl, IdrNLp, CraNut, RsvIrapVcl22, RsvIrapVcl23}

(***************************************************************************)
(* Bounds of the PocComputer specifications.                               *)
(***************************************************************************)
\* |ref_pic_order_cnt_msb| stays within MaxMsbSteps * MaxPicOrderCntLsb.
MaxMsbSteps == 1
\* PocMonoSpec feeds pictures until the order count reaches MaxTrueCnt.
MaxTrueCnt == 70

\* log2_max_pic_order_cnt_lsb_minus4 arguments: MaxPicOrderCntLsb 16 and 32.
Log2Set == {0, 1}
\* nuh_temporal_id_plus1 arguments; 0 makes `nuh_temporal_id_plus1 - 1` overflow.
TidPlus1Set == {0, 1, 2}
\* nal_unit_type arguments: trailing (reference and sub-layer non-reference),
\* RADL, RASL, BLA, both IDR types, CRA and a reserved IRAP type.
PocTypes == {TrailN, TrailR, RadlR, RaslN, BlaNLp, IdrWRadl, IdrNLp, CraNut, RsvIrapVcl22}

Pow2(n) == IF n = 0 THEN 1 ELSE IF n = 1 THEN 2 ELSE IF n = 2 THEN 4
           ELSE IF n = 3 THEN 8 ELSE IF n = 4 THEN 16 ELSE IF n = 5 THEN 32
           ELSE IF n = 6 THEN 64 ELSE IF n = 7 THEN 128 ELSE 256

\* Option<T>: None is <<>>, Some(v) is <<v>>.
None == <<>>
Some(v) == <<v>>
is_some(o) == Len(o) = 1
unwrap(o) == o[1]

(***************************************************************************)
(* PocComputer (poc.rs).  A PocComputer value is the record `self`; a call *)
(* returns the new value of self, whether the call panicked, and the       *)
(* returned PicOrderCntVal with the PicOrderCntMsb it was computed from.   *)
(***************************************************************************)
PocComputer(f, m, l) ==
    [is_first_picture |-> f, ref_pic_order_cnt_msb |-> m, ref_pic_order_cnt_lsb |-> l]

PocDefault == PocComputer(TRUE, 0, 0)

reset(self) == PocComputer(TRUE, 0, 0)

PocReturn(self, panicked, msb, ret, ex) ==
    [self |-> self, panicked |-> panicked, msb |-> msb, ret |-> ret, ex |-> ex]

\* poc.rs:87-110, with prevPicOrderCntMsb/Lsb taken from self.
pic_order_cnt_msb_swapped(self, t, no_rasl_output_flag, slice_pic_order_cnt_lsb, max_pic_order_cnt_lsb) ==
    IF ~is_irap(t) \/ ~no_rasl_output_flag
    THEN LET prev_pic_order_cnt_lsb == self.ref_pic_order_cnt_lsb
             prev_pic_order_cnt_msb == self.ref_pic_order_cnt_msb
         IN  IF /\ slice_pic_order_cnt_lsb < prev_pic_order_cnt_lsb
                /\ (prev_pic_order_cnt_lsb - slice_pic_order_cnt_lsb) > (max_pic_order_cnt_lsb \div 2)
             THEN prev_pic_order_cnt_msb - max_pic_order_cnt_lsb
             ELSE IF /\ slice_pic_order_cnt_lsb > prev_pic_order_cnt_lsb
                     /\ (slice_pic_order_cnt_lsb - prev_pic_order_cnt_lsb) > (max_pic_order_cnt_lsb \div 2)
             THEN prev_pic_order_cnt_msb + max_pic_order_cnt_lsb
             ELSE prev_pic_order_cnt_msb
    ELSE 0

pic_order_cnt_msb_half_range(self, t, no_rasl_output_flag, slice_pic_order_cnt_lsb, max_pic_order_cnt_lsb) ==
    IF ~is_irap(t) \/ ~no_rasl_output_flag
    THEN LET prev_pic_order_cnt_lsb == self.ref_pic_order_cnt_lsb
             prev_pic_order_cnt_msb == self.ref_pic_order_cnt_msb
         IN  IF /\ slice_pic_order_cnt_lsb < prev_pic_order_cnt_lsb
                /\ (prev_pic_order_cnt_lsb - slice_pic_order_cnt_lsb) >= (max_pic_order_cnt_lsb \div 2)
             THEN prev_pic_order_cnt_msb + (max_pic_order_cnt_lsb \div 2)
             ELSE IF /\ slice_pic_order_cnt_lsb > prev_pic_order_cnt_lsb
                     /\ (slice_pic_order_cnt_lsb - prev_pic_order_cnt_lsb) > (max_pic_order_cnt_lsb \div 2)
             THEN prev_pic_order_cnt_msb - (max_pic_order_cnt_lsb \div 2)
             ELSE prev_pic_order_cnt_msb
    ELSE 0

pic_order_cnt_msb(self, t, no_rasl_output_flag, slice_pic_order_cnt_lsb, max_pic_order_cnt_lsb) ==
    IF ~is_irap(t) \/ ~no_rasl_output_flag
    THEN LET prev_pic_order_cnt_lsb == self.ref_pic_order_cnt_lsb
             prev_pic_order_cnt_msb == self.ref_pic_order_cnt_msb
         IN  IF /\ slice_pic_order_cnt_lsb < prev_pic_order_cnt_lsb
                /\ (prev_pic_order_cnt_lsb - slice_pic_order_cnt_lsb) >= (max_pic_order_cnt_lsb \div 2)
             THEN prev_pic_order_cnt_msb + max_pic_order_cnt_lsb
             ELSE IF /\ slice_pic_order_cnt_lsb > prev_pic_order_cnt_lsb
                     /\ (slice_pic_order_cnt_lsb - prev_pic_order_cnt_lsb) > (max_pic_order_cnt_lsb \div 2)
             THEN prev_pic_order_cnt_msb - max_pic_order_cnt_lsb
             ELSE prev_pic_order_cnt_msb
    ELSE 0

\* poc.rs:112-118: the stored pair follows the picture when it can be prevTid0Pic.
updates_ref_ignoring_leading(temporal_id, t) == temporal_id = 0

updates_ref(temporal_id, t) == temporal_id = 0 /\ ~is_rasl(t) /\ ~is_radl(t)

\* poc.rs:60-124.  `checks` is the build's overflow-checks setting: the u8
\* subtraction `nuh_temporal_id_plus1 - 1` panics under it and wraps to 255
\* without it.
compute_poc_ex(self, checks, log2_max_pic_order_cnt_lsb_minus4, nuh_temporal_id_plus1, slice_nal_unit_type, slice_pic_order_cnt_lsb) ==
    IF is_idr(slice_nal_unit_type)
    THEN PocReturn(self, FALSE, 0, 0, TRUE)
    ELSE
    LET max_pic_order_cnt_lsb == Pow2(log2_max_pic_order_cnt_lsb_minus4 + 4)
        no_rasl_output_flag ==
            IF is_irap(slice_nal_unit_type)
            THEN is_idr(slice_nal_unit_type) \/ is_bla(slice_nal_unit_type) \/ self.is_first_picture
            ELSE FALSE
        msb == pic_order_cnt_msb(self, slice_nal_unit_type, no_rasl_output_flag,
                                 slice_pic_order_cnt_lsb, max_pic_order_cnt_lsb)
        temporal_id == (nuh_temporal_id_plus1 - 1) % 256
        updated ==
            IF updates_ref(temporal_id, slice_nal_unit_type)
            THEN PocComputer(FALSE, msb, slice_pic_order_cnt_lsb)
            ELSE PocComputer(FALSE, self.ref_pic_order_cnt_msb, self.ref_pic_order_cnt_lsb)
    IN  IF checks /\ nuh_temporal_id_plus1 < 1
        THEN PocReturn(self, TRUE, msb, 0, TRUE)
        ELSE PocReturn(updated, FALSE, msb, msb + slice_pic_order_cnt_lsb, TRUE)

\* poc.rs:38-58.  The header's slice_pic_order_cnt_lsb is an Option<u16>;
\* `expect` panics on None.
compute_poc(self, checks, log2_max_pic_order_cnt_lsb_minus4, nuh_temporal_id_plus1, hdr_nal_unit_type, hdr_slice_pic_order_cnt_lsb) ==
    IF is_idr(hdr_nal_unit_type)
    THEN PocReturn(self, FALSE, 0, 0, FALSE)
    ELSE IF ~is_some(hdr_slice_pic_order_cnt_lsb)
    THEN PocReturn(self, TRUE, 0, 0, FALSE)
    ELSE compute_poc_ex(self, checks, log2_max_pic_order_cnt_lsb_minus4,
                        nuh_temporal_id_plus1, hdr_nal_unit_type,
                        unwrap(hdr_slice_pic_order_cnt_lsb))

(***************************************************************************)
(* The framer's variables while a PocComputer specification runs, and the  *)
(* PocComputer's while the framer runs.                                    *)
(***************************************************************************)
NoRead == [kind |-> "none", length |-> 0, consumed |-> 0]

FramerIdle ==
    /\ source = <<>>
    /\ pos = 0
    /\ length_size_minus_one = 0
    /\ decoder = "Nalu"
    /\ current_offset = 0
    /\ contents = <<>>
    /\ result = "idle"
    /\ last_read = NoRead
    /\ slice_segment_offsets = <<>>
    /\ annex_b_byte_stream = <<>>
    /\ pc = "idle"

NoArguments == [op |-> "none"]

NoOutcome == [op |-> "none", kind |-> "none"]

ParseIdle ==
    /\ input = <<>>
    /\ arguments = NoArguments
    /\ outcome = NoOutcome

NoCall ==
    [op |-> "new", log2 |-> 0, tidp1 |-> 1, type |-> TrailN, lsb |-> None,
     panicked |-> FALSE, msb |-> 0, ret |-> 0, ex |-> FALSE]

Call(op, log2, tidp1, t, lsb, r) ==
    [op |-> op, log2 |-> log2, tidp1 |-> tidp1, type |-> t, lsb |-> lsb,
     panicked |-> r.panicked, msb |-> r.msb, ret |-> r.ret, ex |-> r.ex]

Self == PocComputer(is_first_picture, ref_pic_order_cnt_msb, ref_pic_order_cnt_lsb)

SetSelf(self) ==
    /\ is_first_picture' = self.is_first_picture
    /\ ref_pic_order_cnt_msb' = self.ref_pic_order_cnt_msb
    /\ ref_pic_order_cnt_lsb' = self.ref_pic_order_cnt_lsb

MaxPicOrderCntLsb == Pow2(sps_log2_max_pic_order_cnt_lsb_minus4 + 4)

\* slice_pic_order_cnt_lsb arguments: both ends of [0, MaxPicOrderCntLsb) and the
\* values around half of the range.
LsbSet ==
    {0, (MaxPicOrderCntLsb \div 2) - 1, MaxPicOrderCntLsb \div 2,
     (MaxPicOrderCntLsb \div 2) + 1, MaxPicOrderCntLsb - 1}

\* The slice_pic_order_cnt_lsb fields of the headers given to compute_poc.
HeaderLsbSet == {None, Some(0), Some((MaxPicOrderCntLsb \div 2) + 1), Some(MaxPicOrderCntLsb - 1)}

MsbCap == MaxMsbSteps * MaxPicOrderCntLsb

InMsbCap(self) ==
    /\ self.ref_pic_order_cnt_msb <= MsbCap
    /\ self.ref_pic_order_cnt_msb >= 0 - MsbCap

(***************************************************************************)
(* PocSpec: a PocComputer fed arbitrary pictures.                          *)
(***************************************************************************)
PocInit ==
    /\ is_first_picture = PocDefault.is_first_picture
    /\ ref_pic_order_cnt_msb = PocDefault.ref_pic_order_cnt_msb
    /\ ref_pic_order_cnt_lsb = PocDefault.ref_pic_order_cnt_lsb
    /\ overflow_checks \in BOOLEAN
    /\ sps_log2_max_pic_order_cnt_lsb_minus4 \in Log2Set
    /\ last = NoCall
    /\ true_cnt = 0
    /\ FramerIdle
    /\ ParseIdle

Reset ==
    /\ SetSelf(reset(Self))
    /\ last' = [NoCall EXCEPT !.op = "reset"]
    /\ true_cnt' = 0
    /\ UNCHANGED <<overflow_checks, sps_log2_max_pic_order_cnt_lsb_minus4, framerVars, parseVars>>

ComputePoc ==
    \E tidp1 \in TidPlus1Set, t \in PocTypes, lsb \in HeaderLsbSet :
        LET r == compute_poc(Self, overflow_checks, sps_log2_max_pic_order_cnt_lsb_minus4,
                             tidp1, t, lsb)
        IN  /\ InMsbCap(r.self)
            /\ SetSelf(r.self)
            /\ last' = Call("compute_poc", sps_log2_max_pic_order_cnt_lsb_minus4, tidp1, t, lsb, r)
            /\ UNCHANGED <<true_cnt, overflow_checks, sps_log2_max_pic_order_cnt_lsb_minus4,
                           framerVars, parseVars>>

ComputePocEx ==
    \E tidp1 \in TidPlus1Set, t \in PocTypes, lsb \in LsbSet :
        LET log2 == sps_log2_max_pic_order_cnt_lsb_minus4
            r == compute_poc_ex(Self, overflow_checks, log2, tidp1, t, lsb)
        IN  /\ InMsbCap(r.self)
            /\ SetSelf(r.self)
            /\ last' = Call("compute_poc_ex", log2, tidp1, t, Some(lsb), r)
            /\ UNCHANGED <<true_cnt, overflow_checks, sps_log2_max_pic_order_cnt_lsb_minus4,
                           framerVars, parseVars>>

PocNext == Reset \/ ComputePoc \/ ComputePocEx

PocSpec == PocInit /\ [][PocNext]_vars

(***************************************************************************)
(* PocMonoSpec: from the initial or reset state, pictures that are not     *)
(* IRAP, RASL or RADL, with TemporalId 0, whose order count grows by d,    *)
(* 0 < d < MaxPicOrderCntLsb / 2, each carrying the count's LSBs.          *)
(***************************************************************************)
MonoTypes == {t \in NaluType : t < VpsNut /\ ~is_irap(t) /\ ~is_rasl(t) /\ ~is_radl(t)}

MonoReset ==
    /\ SetSelf(reset(Self))
    /\ last' = [NoCall EXCEPT !.op = "reset"]
    /\ true_cnt' = 0
    /\ UNCHANGED <<overflow_checks, sps_log2_max_pic_order_cnt_lsb_minus4, framerVars, parseVars>>

MonoComputePoc ==
    \E d \in 1..((MaxPicOrderCntLsb \div 2) - 1), t \in MonoTypes :
        LET lsb == (true_cnt + d) % MaxPicOrderCntLsb
            r == compute_poc(Self, overflow_checks, sps_log2_max_pic_order_cnt_lsb_minus4,
                             1, t, Some(lsb))
        IN  /\ true_cnt + d <= MaxTrueCnt
            /\ SetSelf(r.self)
            /\ last' = Call("compute_poc", sps_log2_max_pic_order_cnt_lsb_minus4, 1, t, Some(lsb), r)
            /\ true_cnt' = true_cnt + d
            /\ UNCHANGED <<overflow_checks, sps_log2_max_pic_order_cnt_lsb_minus4, framerVars, parseVars>>

MonoComputePocEx ==
    \E d \in 1..((MaxPicOrderCntLsb \div 2) - 1), t \in MonoTypes :
        LET lsb == (true_cnt + d) % MaxPicOrderCntLsb
            r == compute_poc_ex(Self, overflow_checks, sps_log2_max_pic_order_cnt_lsb_minus4,
                                1, t, lsb)
        IN  /\ true_cnt + d <= MaxTrueCnt
            /\ SetSelf(r.self)
            /\ last' = Call("compute_poc_ex", sps_log2_max_pic_order_cnt_lsb_minus4, 1, t, Some(lsb), r)
            /\ true_cnt' = true_cnt + d
            /\ UNCHANGED <<overflow_checks, sps_log2_max_pic_order_cnt_lsb_minus4, framerVars, parseVars>>

PocMonoNext == MonoReset \/ MonoComputePoc \/ MonoComputePocEx

PocMonoSpec == PocInit /\ [][PocMonoNext]_vars

(***************************************************************************)
(* Byte sources.  A source is a sequence of bytes and a reader over it is  *)
(* an io::Cursor: a position that a seek may move beyond the end.          *)
(***************************************************************************)
\* The bytes a read can still get at position p.
Avail(src, p) == IF p >= Len(src) THEN 0 ELSE Len(src) - p

\* The n bytes from position p (0-based).
Bytes(src, p, n) == SubSeq(src, p + 1, p + n)

\* Big-endian value of a byte sequence: fold(0, |acc, x| acc << 8 | x).
RECURSIVE BigEndian(_)
BigEndian(bs) ==
    IF bs = <<>> THEN 0
    ELSE BigEndian(SubSeq(bs, 1, Len(bs) - 1)) * 256 + bs[Len(bs)]

\* What a parser returns: kind "Ok", an io::ErrorKind ("UnexpectedEof",
\* "InvalidData") or "panic"; pos is the reader's position afterwards.
Ret(kind, p, value, consumed) ==
    [kind |-> kind, pos |-> p, value |-> value, consumed |-> consumed]

NoValue == [nal_unit_type |-> 0 - 1]

\* What read_content returns: also the record's offset and declared length.
ReadRet(kind, p, value, consumed, offset, length) ==
    [kind |-> kind, pos |-> p, value |-> value, consumed |-> consumed,
     offset |-> offset, length |-> length]

\* base.rs:9-24 and nalu.rs:317-333: the same loop.  One iteration, entered
\* with the (1-based) index i: what it pushes and the index it leaves.
ebsp_to_rbsp_step_keeping_third_byte(ebsp, i) ==
    IF i + 2 <= Len(ebsp) /\ ebsp[i] = 0 /\ ebsp[i + 1] = 0 /\ ebsp[i + 2] = 3
    THEN [rbsp |-> <<0, 0>>, i |-> i + 2]
    ELSE [rbsp |-> <<ebsp[i]>>, i |-> i + 1]

ebsp_to_rbsp_step(ebsp, i) ==
    IF i + 2 <= Len(ebsp) /\ ebsp[i] = 0 /\ ebsp[i + 1] = 0 /\ ebsp[i + 2] = 3
    THEN [rbsp |-> <<0, 0>>, i |-> i + 3]
    ELSE [rbsp |-> <<ebsp[i]>>, i |-> i + 1]

\* The iterations that start at an index below hi, the loop being at i >= lo:
\* those below the middle of lo..hi, then the others from where these end.
RECURSIVE ebsp_to_rbsp_from(_, _, _, _)
ebsp_to_rbsp_from(ebsp, i, lo, hi) ==
    IF i >= hi THEN [rbsp |-> <<>>, i |-> i]
    ELSE IF hi - lo <= 1 THEN ebsp_to_rbsp_step(ebsp, i)
    ELSE LET mid == (lo + hi) \div 2
             low == ebsp_to_rbsp_from(ebsp, i, lo, mid)
             high == ebsp_to_rbsp_from(ebsp, low.i, mid, hi)
         IN  [rbsp |-> low.rbsp \o high.rbsp, i |-> high.i]

ebsp_to_rbsp(ebsp) == ebsp_to_rbsp_from(ebsp, 1, 1, Len(ebsp) + 1).rbsp

(***************************************************************************)
(* BitReader<R, BigEndian> (the bitstream_io crate) over a byte source.    *)
(* The source is taken as its bits, most significant bit of each byte      *)
(* first; a reader is its bit position and the first failure it met:       *)
(* once a read has failed ("UnexpectedEof", "InvalidInput") or the parser  *)
(* has panicked ("panic"), `?` and unwinding leave the function, so every  *)
(* later read leaves the reader as it is.                                  *)
(***************************************************************************)
Shl1(n) == 2 ^ n

BitsOf(bytes) ==
    [i \in 1..(8 * Len(bytes)) |->
        (bytes[((i - 1) \div 8) + 1] \div Shl1(7 - ((i - 1) % 8))) % 2]

BitReader(p) == [pos |-> p, kind |-> "Ok"]

Failed(rd, kind) == IF rd.kind = "Ok" THEN [rd EXCEPT !.kind = kind] ELSE rd

\* What a read returns: the reader afterwards and the value read.
Read(rd, v) == [rd |-> rd, v |-> v]

\* The value of the n bits after position p, most significant first, taken
\* eight bits at a time from the low end.
BitWeight(bits, p, n, k) == IF k <= n THEN bits[p + k] * Shl1(n - k) ELSE 0

RECURSIVE BitsValue(_, _, _)
BitsValue(bits, p, n) ==
    IF n > 8 THEN BitsValue(bits, p, n - 8) * 256 + BitsValue(bits, p + n - 8, 8)
    ELSE BitWeight(bits, p, n, 1) + BitWeight(bits, p, n, 2) + BitWeight(bits, p, n, 3)
         + BitWeight(bits, p, n, 4) + BitWeight(bits, p, n, 5) + BitWeight(bits, p, n, 6)
         + BitWeight(bits, p, n, 7) + BitWeight(bits, p, n, 8)

\* BitRead::read::<T>(n) for a T of `width` bits: more than width bits is an
\* InvalidInput error, fewer than n bits left is UnexpectedEof.
read_as(bits, rd, n, width) ==
    IF rd.kind # "Ok" THEN Read(rd, 0)
    ELSE IF n > width THEN Read(Failed(rd, "InvalidInput"), 0)
    ELSE IF rd.pos + n > Len(bits) THEN Read(Failed(rd, "UnexpectedEof"), 0)
    ELSE Read([rd EXCEPT !.pos = @ + n], BitsValue(bits, rd.pos, n))

read(bits, rd, n) == read_as(bits, rd, n, 32)

\* BitRead::read_bit.
read_bit(bits, rd) == read_as(bits, rd, 1, 1)

\* A read whose value is a 32-bit field kept as its bits, or is dropped.
read_bits(bits, rd, n) ==
    IF rd.kind # "Ok" THEN Read(rd, <<>>)
    ELSE IF rd.pos + n > Len(bits) THEN Read(Failed(rd, "UnexpectedEof"), <<>>)
    ELSE Read([rd EXCEPT !.pos = @ + n], SubSeq(bits, rd.pos + 1, rd.pos + n))

skip(bits, rd, n) == read_bits(bits, rd, n).rd

\* The zero bits from position p up to the next one bit, -1 when there is none.
ZerosFrom(bits, p) ==
    IF \A q \in (p + 1)..Len(bits) : bits[q] = 0 THEN 0 - 1
    ELSE CHOOSE z \in 0..(Len(bits) - p - 1) :
             /\ bits[p + z + 1] = 1
             /\ \A q \in (p + 1)..(p + z) : bits[q] = 0

\* BitRead::read_unary1: counts the zero bits before the next one bit and
\* consumes that bit too; z is what ZerosFrom found.
unary1_from(rd, z) ==
    IF z < 0 THEN Read(Failed(rd, "UnexpectedEof"), 0)
    ELSE Read([rd EXCEPT !.pos = @ + z + 1], z)

read_unary1(bits, rd) ==
    IF rd.kind # "Ok" THEN Read(rd, 0) ELSE unary1_from(rd, ZerosFrom(bits, rd.pos))

(***************************************************************************)
(* Exp-Golomb codes (base.rs:26-57).                                       *)
(***************************************************************************)
\* base.rs:31 and 42: (1 << leading_zero_count) - 1 + x, x being what
\* read(leading_zero_count) returned.
code_num_of_swapped(leading_zero_count, x) ==
    [rd |-> x.rd,
     v |-> IF x.rd.kind = "Ok" THEN Shl1(leading_zero_count % 32) + 1 - x.v ELSE 0,
     leading_zero_count |-> leading_zero_count]

code_num_of(leading_zero_count, x) ==
    [rd |-> x.rd,
     v |-> IF x.rd.kind = "Ok" THEN Shl1(leading_zero_count % 32) - 1 + x.v ELSE 0,
     leading_zero_count |-> leading_zero_count]

\* base.rs:30-31 and 41-42 after read_unary1 has returned u.  The shift is on
\* a u32: for a count of 32 or more it panics in a build with overflow
\* checks; without them the count is masked to 5 bits, and the read of more
\* than 32 bits fails with InvalidInput.
exp_golomb_after(bits, u) ==
    IF u.rd.kind # "Ok" THEN [rd |-> u.rd, v |-> 0, leading_zero_count |-> 0]
    ELSE IF u.v >= 32 /\ overflow_checks
    THEN [rd |-> Failed(u.rd, "panic"), v |-> 0, leading_zero_count |-> u.v]
    ELSE code_num_of(u.v, read_as(bits, u.rd, u.v, 32))

exp_golomb(bits, rd) == exp_golomb_after(bits, read_unary1(bits, rd))

\* base.rs:29-32.
read_exp_golomb_ue(bits, rd) == exp_golomb(bits, rd)

\* base.rs:43.
counted_bits_without_stop_bit(leading_zero_count) == leading_zero_count + leading_zero_count

counted_bits(leading_zero_count) == leading_zero_count + 1 + leading_zero_count

\* base.rs:43-44: bit_count (a u32, far from its end here) is left alone when
\* a read fails; g is the code read.
counted(g, bit_count) ==
    [rd |-> g.rd, v |-> g.v,
     bit_count |-> IF g.rd.kind = "Ok"
                   THEN bit_count + counted_bits(g.leading_zero_count)
                   ELSE bit_count]

\* base.rs:37-45.
read_exp_golomb_ue_count_bits(bits, rd, bit_count) == counted(exp_golomb(bits, rd), bit_count)

\* base.rs:52-56.
signed_of_code_num_unsigned(code_num_read) == code_num_read

signed_of_code_num(code_num_read) ==
    IF code_num_read % 2 # 0 THEN (code_num_read \div 2) + 1 ELSE 0 - (code_num_read \div 2)

\* base.rs:51-56: g is what read_exp_golomb_ue returned.
signed(g) == IF g.rd.kind # "Ok" THEN Read(g.rd, 0) ELSE Read(g.rd, signed_of_code_num(g.v))

\* base.rs:50-57.
read_exp_golomb_se(bits, rd) == signed(read_exp_golomb_ue(bits, rd))

\* `as u8` and `as u16` on a u32.
as_u8(v) == v % 256

as_u16(v) == v % 65536

(***************************************************************************)
(* A parser function under way: the bits under its BitReader, the reader,  *)
(* the caller's *bit_count (rps.rs only) and the values its `let`s have    *)
(* bound so far.  A statement takes the parser as the one before it left   *)
(* it; after a failure every statement leaves it as it is.                 *)
(***************************************************************************)
Parser(bits, rd, bit_count) == [bits |-> bits, rd |-> rd, bit_count |-> bit_count, f |-> <<>>]

\* The statements of a body in program order: the parser after the last.
in_order(statements) == statements[Len(statements)]

\* The statements of a block run in order; which statement is which is
\* `statement` below, after the blocks.  args is what the block needs besides
\* the state.
RECURSIVE run(_, _, _, _, _)

ok(s) == s.rd.kind = "Ok"

\* A bound value, and a bound flag; nothing is bound after a failure.
val(s, name) == IF ok(s) THEN s.f[name] ELSE 0

is_set(s, name) == ok(s) /\ s.f[name]

\* `let name = v;`
bind(s, name, v) == IF ok(s) THEN [s EXCEPT !.f = (name :> v) @@ @] ELSE s

\* The casts of the values read: `as u8`, `as u16`, `as i8`, a flag, or none.
as_i8(v) == ((v + 128) % 256) - 128

cast(v, as) ==
    CASE as = "bool" -> v = 1
      [] as = "u8" -> as_u8(v)
      [] as = "u16" -> as_u16(v)
      [] as = "i8" -> as_i8(v)
      [] OTHER -> v

\* `let name = <a read>? as _;`: r is what the read returned.
took(s, r, name, as) ==
    IF r.rd.kind = "Ok" THEN [s EXCEPT !.rd = r.rd, !.f = (name :> cast(r.v, as)) @@ @]
    ELSE [s EXCEPT !.rd = r.rd]

\* `let name: uN = bit_reader.read(n)?;`
let_u(s, name, n, width) == took(s, read_as(s.bits, s.rd, n, width), name, "")

\* `let name = bit_reader.read_bit()?;`
let_bit(s, name) == took(s, read_bit(s.bits, s.rd), name, "bool")

\* `let name: uN = read_exp_golomb_ue(&mut bit_reader)? as _;`
let_ue(s, name, as) == took(s, read_exp_golomb_ue(s.bits, s.rd), name, as)

\* `let name: i8 = read_exp_golomb_se(&mut bit_reader)? as _;`
let_se(s, name) == took(s, read_exp_golomb_se(s.bits, s.rd), name, "i8")

\* A 32-bit field or a run of flags, kept as its bits.
let_bits(s, name, n) == took(s, read_bits(s.bits, s.rd, n), name, "")

\* Reads whose values are dropped.
drop_bits(s, n) == [s EXCEPT !.rd = skip(s.bits, s.rd, n)]

drop_ue(s) == [s EXCEPT !.rd = read_exp_golomb_ue(s.bits, s.rd).rd]

drop_unary1(s) == [s EXCEPT !.rd = read_unary1(s.bits, s.rd).rd]

\* `Some(..)` around the value just bound.
some(s, name) == IF ok(s) THEN [s EXCEPT !.f[name] = Some(@)] ELSE s

\* `todo!(..)`, a failed `expect`, an index out of bounds.
panic(s) == [s EXCEPT !.rd = Failed(@, "panic")]

\* `if flag { todo!(..) }` on a flag bound before.
unsupported_if(s, flag_name) == IF is_set(s, flag_name) THEN panic(s) ELSE s

\* `let name = <a parser on the same reader>?;`: sub is the parser it left.
nest(s, name, sub) ==
    IF ok(sub) THEN [s EXCEPT !.rd = sub.rd, !.f = (name :> sub.f) @@ @]
    ELSE [s EXCEPT !.rd = sub.rd]

\* `*bit_count += 1` followed by read_bit (rps.rs:180-181, 196-197, 232-233,
\* 240-241): the count moves when the statement is reached, whether or not the
\* read then succeeds; b is what read_bit returned.
counted_bit(rd, b, bit_count) ==
    [rd |-> b.rd, v |-> b.v, bit_count |-> IF rd.kind = "Ok" THEN bit_count + 1 ELSE bit_count]

counted_read_bit(bits, rd, bit_count) == counted_bit(rd, read_bit(bits, rd), bit_count)

\* The reads of rps.rs, which move the caller's *bit_count.
took_counted(s, r, name, as) == [took(s, r, name, as) EXCEPT !.bit_count = r.bit_count]

let_bit_counted(s, name) ==
    took_counted(s, counted_read_bit(s.bits, s.rd, s.bit_count), name, "bool")

let_ue_counted(s, name, as) ==
    took_counted(s, read_exp_golomb_ue_count_bits(s.bits, s.rd, s.bit_count), name, as)

\* `list[i] = bit_reader.read_bit()?` on a list bound before.
pushed(s, r, name) ==
    IF r.rd.kind = "Ok" THEN [s EXCEPT !.rd = r.rd, !.f[name] = Append(@, r.v = 1)]
    ELSE [s EXCEPT !.rd = r.rd]

push_bit(s, name) == pushed(s, read_bit(s.bits, s.rd), name)

\* `list[i] = <the value just bound>`.
push_bound(s, list, name) == IF ok(s) THEN [s EXCEPT !.f[list] = Append(@, s.f[name])] ELSE s

\* `list.push(<a parser on the same reader>?)`.
push_nested(s, list, sub) ==
    IF ok(sub) THEN [s EXCEPT !.rd = sub.rd, !.f[list] = Append(@, sub.f)]
    ELSE [s EXCEPT !.rd = sub.rd]

\* `Ok(Self { .. })`: the struct built from the values bound.
built(s, fields) == IF ok(s) THEN [s EXCEPT !.f = [name \in fields |-> @[name]]] ELSE s

\* What a parameter-set or header parser returns: how it ended, where the
\* reader stands, and the struct built from the bound values when it ended well.
Parsed(s) ==
    [kind |-> s.rd.kind, pos |-> s.rd.pos, value |-> IF ok(s) THEN s.f ELSE NoValue]

(***************************************************************************)
(* ProfileTierLevel::from_reader (ptl.rs:37-266).                          *)
(***************************************************************************)
\* ptl.rs:61-63 and 169-172: profile_compatibility_flags is the 32 flag bits.
if_profile(profile_idc, profile_compatibility_flags, idc) ==
    profile_idc = idc \/ profile_compatibility_flags[idc + 1] = 1

if_any_profile(profile_idc, profile_compatibility_flags, idcs) ==
    \E idc \in idcs : if_profile(profile_idc, profile_compatibility_flags, idc)

\* ptl.rs:65-105 and 175-215: the bits read in the constraint region, by branch.
constraint_bits(profile_idc, profile_compatibility_flags) ==
    IF if_any_profile(profile_idc, profile_compatibility_flags, {4, 5, 6, 7, 8, 9, 10, 11})
    THEN 9 + (IF if_any_profile(profile_idc, profile_compatibility_flags, {5, 9, 10, 11})
              THEN 1 + 32 + 1
              ELSE 32 + 2)
    ELSE IF if_profile(profile_idc, profile_compatibility_flags, 2)
    THEN 7 + 1 + 32 + 3
    ELSE 32 + 11

\* ptl.rs:65-120 and 175-230: the constraint region and inbld_flag / reserved_zero_bit.
constraint_flags(s) ==
    IF ~ok(s) THEN s
    ELSE drop_bits(s, constraint_bits(s.f.profile_idc, s.f.profile_compatibility_flags) + 1)

\* ptl.rs:46-120 and 154-230: profile_space .. inbld_flag / reserved_zero_bit.
\* Statement i of profile_block.
profile_block_statement(s, i) ==
    CASE i = 1 -> let_u(s, "profile_space", 2, 8)
      [] i = 2 -> let_bit(s, "tier_flag")
      [] i = 3 -> let_u(s, "profile_idc", 5, 8)
      [] i = 4 -> let_bits(s, "profile_compatibility_flags", 32)
      [] i = 5 -> let_bit(s, "progressive_source_flag")
      [] i = 6 -> let_bit(s, "interlaced_source_flag")
      [] i = 7 -> let_bit(s, "non_packed_constraint_flag")
      [] i = 8 -> let_bit(s, "frame_only_constraint_flag")
      [] i = 9 -> constraint_flags(s)

profile_block(s) ==
    run("profile_block", <<>>, s, 1, 9)

\* ptl.rs:138-143: the presence flags of the sub-layers from i on.
RECURSIVE sub_layer_present_flags(_, _, _)
sub_layer_present_flags(s, i, max_num_sub_layers_minus1) ==
    IF i >= max_num_sub_layers_minus1 \/ ~ok(s) THEN s
    ELSE sub_layer_present_flags(
             push_bit(push_bit(s, "sub_layer_profile_present_flags"),
                      "sub_layer_level_present_flags"),
             i + 1, max_num_sub_layers_minus1)

\* ptl.rs:144-149.
reserved_zero_2bits(s, max_num_sub_layers_minus1) ==
    IF max_num_sub_layers_minus1 > 0
    THEN drop_bits(s, 2 * (8 - max_num_sub_layers_minus1))
    ELSE s

\* ptl.rs:232-236: whether sub_layer_level_idc is read for a sub-layer.
reads_level_idc(profile_present, level_present) == profile_present /\ level_present

\* ptl.rs:232-236: sub_layer_level_idc.
sub_layer_level_idc(s, profile_present, level_present) ==
    IF reads_level_idc(profile_present, level_present)
    THEN some(let_u(s, "level_idc", 8, 8), "level_idc")
    ELSE bind(s, "level_idc", None)

\* ptl.rs:153-251: the right-hand side of the assignment for sub-layer i.
sub_layer(s, i) ==
    IF ~ok(s) THEN s
    ELSE IF ~s.f.sub_layer_profile_present_flags[i + 1]
    THEN bind(s, "sub_layer", None)
    ELSE some(nest(s, "sub_layer",
                   sub_layer_level_idc(profile_block(Parser(s.bits, s.rd, 0)), TRUE,
                                       s.f.sub_layer_level_present_flags[i + 1])),
              "sub_layer")

\* ptl.rs:151-252: the sub-layers from i on.  sub_layers has 6 slots: the
\* assignment to slot 6 panics after its right-hand side has been read.
RECURSIVE sub_layers_from(_, _, _)
sub_layers_from(s, i, max_num_sub_layers_minus1) ==
    IF i >= max_num_sub_layers_minus1 \/ ~ok(s) THEN s
    ELSE LET assigned == sub_layer(s, i)
         IN  IF i >= 6 THEN panic(assigned)
             ELSE sub_layers_from(push_bound(assigned, "sub_layers", "sub_layer"),
                                  i + 1, max_num_sub_layers_minus1)

\* ptl.rs:46-136: the general profile, tier and level.
general_profile_tier_level(s) ==
    nest(s, "general",
         some(let_u(profile_block(Parser(s.bits, s.rd, 0)), "level_idc", 8, 8), "level_idc"))

\* ptl.rs:37-266.  profile_present_flag is not consulted.
\* Statement i of ProfileTierLevel_from_reader.
ProfileTierLevel_statement(s, i, max_num_sub_layers_minus1) ==
    CASE i = 1 -> general_profile_tier_level(s)
      [] i = 2 -> sub_layer_present_flags( bind(bind(s, "sub_layer_profile_present_flags",
                <<>>), "sub_layer_level_present_flags", <<>>), 0, max_num_sub_layers_minus1)
      [] i = 3 -> reserved_zero_2bits(s, max_num_sub_layers_minus1)
      [] i = 4 -> sub_layers_from(bind(s, "sub_layers", <<>>), 0, max_num_sub_layers_minus1)
      [] i = 5 -> built(s, {"general", "sub_layers"})

ProfileTierLevel_from_reader(bits, rd, profile_present_flag, max_num_sub_layers_minus1) ==
    run("ProfileTierLevel", <<max_num_sub_layers_minus1>>, Parser(bits, rd, 0), 1, 5)

\* `bit_reader.reader().expect("Byte-alignment expected")` (vps.rs:55-57,
\* sps.rs:179): the byte reader under the bit reader, None within a byte.
byte_reader(rd) == IF rd.pos % 8 # 0 THEN Failed(rd, "panic") ELSE rd

\* vps.rs:54-60 and sps.rs:178-182.
let_profile_tier_level(s, max_sub_layers_minus1_name) ==
    nest(s, "profile_tier_level",
         ProfileTierLevel_from_reader(s.bits, byte_reader(s.rd), TRUE,
                                      val(s, max_sub_layers_minus1_name)))

(***************************************************************************)
(* VideoParameterSet::from_rbsp_reader (vps.rs:41-138).                    *)
(***************************************************************************)
\* vps.rs:69-73 and sps.rs:220-227: three codes per sub-layer, from i on.  The
\* arrays have 7 slots: the assignment to slot 7 panics after the read.
RECURSIVE sub_layer_ordering_info_from(_, _, _)
sub_layer_ordering_info_from(s, i, max_sub_layers_minus1) ==
    IF i > max_sub_layers_minus1 \/ ~ok(s) THEN s
    ELSE IF i >= 7 THEN panic(drop_ue(s))
    ELSE sub_layer_ordering_info_from(drop_ue(drop_ue(drop_ue(s))), i + 1,
                                      max_sub_layers_minus1)

\* vps.rs:62-79 and sps.rs:213-232: the flag and what it gates.
sub_layer_ordering_info(s, flag_name, max_sub_layers_minus1_name) ==
    LET flag == let_bit(s, flag_name)
    IN  IF is_set(flag, flag_name)
        THEN bind(sub_layer_ordering_info_from(flag, 0, val(flag, max_sub_layers_minus1_name)),
                  "sub_layer_ordering_info", Some("SubLayerOrderingInfo"))
        ELSE bind(flag, "sub_layer_ordering_info", None)

\* vps.rs:84-88: layer_id_included_flag, once per layer set and layer id.
layer_id_included_flags(s) ==
    drop_bits(s, val(s, "vps_num_layer_sets_minus1") * (val(s, "vps_max_layer_id") + 1))

\* vps.rs:96-102 and sps.rs:437-443: the flag and the code it gates.
num_ticks_poc_diff_one_minus1(s, flag_name, name) ==
    LET flag == let_bit(s, flag_name)
    IN  IF is_set(flag, flag_name) THEN some(let_ue(flag, name, ""), name)
        ELSE bind(flag, name, None)

\* vps.rs:104-107.
vps_num_hrd_parameters(s) ==
    LET code == let_ue(s, "vps_num_hrd_parameters", "")
    IN  IF val(code, "vps_num_hrd_parameters") > 0 THEN panic(code) ELSE code

\* vps.rs:92-113: what vps_timing_info_present_flag gates.
\* Statement i of vps_timing_info.
vps_timing_info_statement(s, i) ==
    CASE i = 1 -> let_bits(s, "vps_num_units_in_tick", 32)
      [] i = 2 -> let_bits(s, "vps_time_scale", 32)
      [] i = 3 -> num_ticks_poc_diff_one_minus1(s, "vps_poc_proportional_to_timing_flag",
                "vps_num_ticks_poc_diff_one_minus1")
      [] i = 4 -> vps_num_hrd_parameters(s)
      [] i = 5 -> bind(s, "timing_info", Some("TimingInfo"))

vps_timing_info(s) ==
    IF ~is_set(s, "vps_timing_info_present_flag") THEN bind(s, "timing_info", None)
    ELSE run("vps_timing_info", <<>>, s, 1, 5)

\* vps.rs:41-138.  vps_extension_flag is read and not consulted (vps.rs:117-119).
\* Statement i of VideoParameterSet_from_rbsp_reader.
VideoParameterSet_statement(s, i) ==
    CASE i = 1 -> let_u(s, "vps_video_parameter_set_id", 4, 8)
      [] i = 2 -> let_bit(s, "vps_base_layer_internal_flag")
      [] i = 3 -> let_bit(s, "vps_base_layer_available_flag")
      [] i = 4 -> let_u(s, "vps_max_layers_minus1", 6, 8)
      [] i = 5 -> let_u(s, "vps_max_sub_layers_minus1", 3, 8)
      [] i = 6 -> let_bit(s, "vps_temporal_id_nesting_flag")
      [] i = 7 -> drop_bits(s, 16)
      [] i = 8 -> let_profile_tier_level(s, "vps_max_sub_layers_minus1")
      [] i = 9 -> sub_layer_ordering_info(s, "vps_sub_layer_ordering_info_present_flag",
                "vps_max_sub_layers_minus1")
      [] i = 10 -> let_u(s, "vps_max_layer_id", 6, 8)
      [] i = 11 -> let_ue(s, "vps_num_layer_sets_minus1", "u16")
      [] i = 12 -> layer_id_included_flags(s)
      [] i = 13 -> let_bit(s, "vps_timing_info_present_flag")
      [] i = 14 -> vps_timing_info(s)
      [] i = 15 -> let_bit(s, "vps_extension_flag")
      [] i = 16 -> drop_unary1(s)
      [] i = 17 -> built(s, {"vps_video_parameter_set_id", "vps_base_layer_internal_flag",
                "vps_base_layer_available_flag", "vps_max_layers_minus1",
                "vps_max_sub_layers_minus1", "vps_temporal_id_nesting_flag",
                "profile_tier_level", "vps_max_layer_id", "vps_num_layer_sets_minus1",
                "sub_layer_ordering_info", "timing_info"})

VideoParameterSet_from_rbsp_reader(rbsp) ==
    Parsed(run("VideoParameterSet", <<>>, Parser(BitsOf(rbsp), BitReader(0), 0), 1, 17))

(***************************************************************************)
(* ShortTermReferencePictureSet::from_bit_reader (rps.rs:154-260).         *)
(***************************************************************************)
\* rps.rs:229-234 and 237-242: the entries from i on: a delta_poc_minus1 code
\* and a used_by_curr_pic flag each.  The arrays have 16 slots: the
\* assignment to slot 16 panics after the code has been read.
RECURSIVE delta_pocs_from(_, _, _, _, _)
delta_pocs_from(s, i, num_pics, delta_poc_minus1, used_by_curr_pic_flag) ==
    IF i >= num_pics \/ ~ok(s) THEN s
    ELSE IF i >= 16 THEN panic(let_ue_counted(s, "delta_poc_minus1", "u16"))
    ELSE delta_pocs_from(
             push_bound(let_bit_counted(
                            push_bound(let_ue_counted(s, "delta_poc_minus1", "u16"),
                                       delta_poc_minus1, "delta_poc_minus1"),
                            "used_by_curr_pic_flag"),
                        used_by_curr_pic_flag, "used_by_curr_pic_flag"),
             i + 1, num_pics, delta_poc_minus1, used_by_curr_pic_flag)

\* rps.rs:179-184.
inter_ref_pic_set_prediction_flag(s, st_rps_index) ==
    IF st_rps_index # 0
    THEN some(let_bit_counted(s, "inter_ref_pic_set_prediction_flag"),
              "inter_ref_pic_set_prediction_flag")
    ELSE bind(s, "inter_ref_pic_set_prediction_flag", None)

\* rps.rs:189-193.
delta_idx_minus1(s, st_rps_index, num_short_term_ref_pic_sets) ==
    IF st_rps_index = num_short_term_ref_pic_sets
    THEN some(let_ue_counted(s, "delta_idx_minus1", ""), "delta_idx_minus1")
    ELSE bind(s, "delta_idx_minus1", None)

\* rps.rs:186-222: the predicted form.  After its reads it stops at `expect`
\* (no list of the SPS's sets is given) or at `todo!`.
\* Statement i of InterRefPicSetPrediction_from.
InterRefPicSetPrediction_statement(s, i, st_rps_index, num_short_term_ref_pic_sets) ==
    CASE i = 1 -> delta_idx_minus1(s, st_rps_index, num_short_term_ref_pic_sets)
      [] i = 2 -> let_bit_counted(s, "delta_rps_sign")
      [] i = 3 -> let_ue_counted(s, "abs_delta_rps_minus1", "u16")
      [] i = 4 -> panic(s)

InterRefPicSetPrediction_from(s, st_rps_index, num_short_term_ref_pic_sets) ==
    run("InterRefPicSetPrediction", <<st_rps_index, num_short_term_ref_pic_sets>>, s, 1, 4)

\* rps.rs:227-234 and 235-242: the arrays of one direction and its loop.
delta_pocs(s, num_pics_name, delta_poc_minus1, used_by_curr_pic_flag) ==
    delta_pocs_from(bind(bind(s, delta_poc_minus1, <<>>), used_by_curr_pic_flag, <<>>),
                    0, val(s, num_pics_name), delta_poc_minus1, used_by_curr_pic_flag)

\* rps.rs:224-253: the direct form.
\* Statement i of NonInterRefPicSetPrediction_from.
NonInterRefPicSetPrediction_statement(s, i) ==
    CASE i = 1 -> let_ue_counted(s, "num_negative_pics", "u8")
      [] i = 2 -> let_ue_counted(s, "num_positive_pics", "u8")
      [] i = 3 -> delta_pocs(s, "num_negative_pics", "delta_poc_s0_minus1",
                "used_by_curr_pic_s0_flag")
      [] i = 4 -> delta_pocs(s, "num_positive_pics", "delta_poc_s1_minus1",
                "used_by_curr_pic_s1_flag")
      [] i = 5 -> built(s, {"inter_ref_pic_set_prediction_flag", "num_negative_pics",
                "num_positive_pics", "delta_poc_s0_minus1", "used_by_curr_pic_s0_flag",
                "delta_poc_s1_minus1", "used_by_curr_pic_s1_flag"})

NonInterRefPicSetPrediction_from(s) ==
    run("NonInterRefPicSetPrediction", <<>>, s, 1, 5)

\* rps.rs:186 and 224: on inter_ref_pic_set_prediction_flag.unwrap_or(false).
st_ref_pic_set_value(s, st_rps_index, num_short_term_ref_pic_sets) ==
    IF ok(s) /\ s.f.inter_ref_pic_set_prediction_flag = Some(TRUE)
    THEN InterRefPicSetPrediction_from(s, st_rps_index, num_short_term_ref_pic_sets)
    ELSE NonInterRefPicSetPrediction_from(s)

\* rps.rs:154-260: from_bit_reader, which gives from_bit_reader_impl no list of
\* the SPS's sets.  The parser it leaves holds the reader, the new *bit_count
\* and the set.
ShortTermReferencePictureSet_from_bit_reader(bits, rd, st_rps_index, num_short_term_ref_pic_sets, bit_count) ==
    st_ref_pic_set_value(
        inter_ref_pic_set_prediction_flag(Parser(bits, rd, bit_count), st_rps_index),
        st_rps_index, num_short_term_ref_pic_sets)

\* rps.rs:113-120 and 129-136: the [bool; 16] arrays of a set read in the
\* direct form; the entries the loops did not write are false.
flag_at(flags, i) == IF i < Len(flags) THEN flags[i + 1] ELSE FALSE

used_by_curr_pic_s0_flag(self) == [i \in 0..15 |-> flag_at(self.used_by_curr_pic_s0_flag, i)]

used_by_curr_pic_s1_flag(self) == [i \in 0..15 |-> flag_at(self.used_by_curr_pic_s1_flag, i)]

\* rps.rs:141-143: `.iter().enumerate().fold(0, |acc, (i, &flag)| acc | ((flag as u16) << i))`
\* from entry i on; the bits are distinct, so `|` adds them.
RECURSIVE fold_bitmask(_, _, _)
fold_bitmask(array, i, acc) ==
    IF i > 15 THEN acc
    ELSE fold_bitmask(array, i + 1, acc + (IF array[i] THEN Shl1(i) ELSE 0))

\* rps.rs:138-144.
bitmask_used_by_curr_pic_s0_flag(self) == fold_bitmask(used_by_curr_pic_s0_flag(self), 0, 0)

\* rps.rs:145-151: folds `self.used_by_curr_pic_s0_flag()`.
bitmask_used_by_curr_pic_s1_flag(self) == fold_bitmask(used_by_curr_pic_s0_flag(self), 0, 0)

(***************************************************************************)
(* SequenceParameterSet::from_rbsp_reader and Vui::from_bit_reader         *)
(* (sps.rs:170-486).                                                       *)
(***************************************************************************)
\* sps.rs:336-372: aspect_ratio_idc and, for EXTENDED_SAR, sar_width and sar_height.
aspect_ratio_info(s) ==
    IF ~is_set(s, "aspect_ratio_info_present_flag") THEN bind(s, "aspect_ratio_idc", 0)
    ELSE LET aspect_ratio_idc == let_u(s, "aspect_ratio_idc", 8, 8)
         IN  IF val(aspect_ratio_idc, "aspect_ratio_idc") = 255
             THEN drop_bits(drop_bits(aspect_ratio_idc, 16), 16)
             ELSE aspect_ratio_idc

\* sps.rs:383-395: colour_description.
colour_description(s) ==
    IF is_set(s, "colour_description_present_flag") THEN drop_bits(s, 8 + 8 + 8) ELSE s

\* sps.rs:379-405: what video_signal_type_present_flag gates.
\* Statement i of video_signal_type.
video_signal_type_statement(s, i) ==
    CASE i = 1 -> let_u(s, "video_format", 3, 8)
      [] i = 2 -> let_bit(s, "video_full_range_flag")
      [] i = 3 -> let_bit(s, "colour_description_present_flag")
      [] i = 4 -> colour_description(s)
      [] i = 5 -> bind(s, "video_signal_type", Some("VideoSignalType"))

video_signal_type(s) ==
    IF ~is_set(s, "video_signal_type_present_flag") THEN bind(s, "video_signal_type", None)
    ELSE run("video_signal_type", <<>>, s, 1, 5)

\* sps.rs:408-418: what chroma_loc_info_present_flag gates.
chroma_loc_info(s) ==
    IF ~is_set(s, "chroma_loc_info_present_flag") THEN bind(s, "chroma_loc_info", None)
    ELSE bind(drop_ue(drop_ue(s)), "chroma_loc_info", Some("ChromaLocInfo"))

\* sps.rs:432-456: what vui_timing_info_present_flag gates.
\* Statement i of vui_timing_info.
vui_timing_info_statement(s, i) ==
    CASE i = 1 -> let_bits(s, "vui_num_units_in_tick", 32)
      [] i = 2 -> let_bits(s, "vui_time_scale", 32)
      [] i = 3 -> num_ticks_poc_diff_one_minus1(s, "vui_poc_proportional_to_timing_flag",
                "vui_num_ticks_poc_diff_one_minus1")
      [] i = 4 -> let_bit(s, "vui_hrd_parameters_present_flag")
      [] i = 5 -> unsupported_if(s, "vui_hrd_parameters_present_flag")
      [] i = 6 -> bind(s, "vui_timing_info", Some("VuiTimingInfo"))

vui_timing_info(s) ==
    IF ~is_set(s, "vui_timing_info_present_flag") THEN bind(s, "vui_timing_info", None)
    ELSE run("vui_timing_info", <<>>, s, 1, 6)

\* `let name = bit_reader.read_bit()?; if name { todo!(..) }`.
let_unsupported_bit(s, name) == unsupported_if(let_bit(s, name), name)

\* sps.rs:332-485.
\* Statement i of Vui_from_bit_reader.
Vui_statement(s, i) ==
    CASE i = 1 -> let_bit(s, "aspect_ratio_info_present_flag")
      [] i = 2 -> aspect_ratio_info(s)
      [] i = 3 -> let_unsupported_bit(s, "overscan_info_present_flag")
      [] i = 4 -> let_bit(s, "video_signal_type_present_flag")
      [] i = 5 -> video_signal_type(s)
      [] i = 6 -> let_bit(s, "chroma_loc_info_present_flag")
      [] i = 7 -> chroma_loc_info(s)
      [] i = 8 -> let_bit(s, "neutral_chroma_indication_flag")
      [] i = 9 -> let_bit(s, "field_seq_flag")
      [] i = 10 -> let_bit(s, "frame_field_info_present_flag")
      [] i = 11 -> let_unsupported_bit(s, "default_display_window_flag")
      [] i = 12 -> let_bit(s, "vui_timing_info_present_flag")
      [] i = 13 -> vui_timing_info(s)
      [] i = 14 -> let_unsupported_bit(s, "bitstream_restriction_flag")
      [] i = 15 -> built(s, {"aspect_ratio_info_present_flag", "aspect_ratio_idc",
                "video_signal_type", "chroma_loc_info", "neutral_chroma_indication_flag",
                "field_seq_flag", "frame_field_info_present_flag", "vui_timing_info"})

Vui_from_bit_reader(bits, rd) ==
    run("Vui", <<>>, Parser(bits, rd, 0), 1, 15)

\* sps.rs:261-270: the short-term reference picture sets from st_rps_index on,
\* each with a bit count of its own that is dropped.
RECURSIVE short_term_ref_pic_sets_from(_, _, _)
short_term_ref_pic_sets_from(s, st_rps_index, num_short_term_ref_pic_sets) ==
    IF st_rps_index >= num_short_term_ref_pic_sets \/ ~ok(s) THEN s
    ELSE short_term_ref_pic_sets_from(
             push_nested(s, "short_term_ref_pic_sets",
                         ShortTermReferencePictureSet_from_bit_reader(
                             s.bits, s.rd, st_rps_index, num_short_term_ref_pic_sets, 0)),
             st_rps_index + 1, num_short_term_ref_pic_sets)

\* sps.rs:186-190.
sps_separate_colour_plane_flag(s) ==
    IF val(s, "chroma_format_idc") = 3
    THEN some(let_bit(s, "separate_colour_plane_flag"), "separate_colour_plane_flag")
    ELSE bind(s, "separate_colour_plane_flag", None)

\* sps.rs:193-208: conformance_window_flag and the four offsets it gates.
conformance_window(s) ==
    LET conformance_window_flag == let_bit(s, "conformance_window_flag")
    IN  IF is_set(conformance_window_flag, "conformance_window_flag")
        THEN bind(drop_ue(drop_ue(drop_ue(drop_ue(conformance_window_flag)))),
                  "conformance_window", Some("ConformanceWindow"))
        ELSE bind(conformance_window_flag, "conformance_window", None)

\* sps.rs:256-272: num_short_term_ref_pic_sets and the sets.
short_term_ref_pic_sets(s) ==
    LET num_short_term_ref_pic_sets == let_ue(s, "num_short_term_ref_pic_sets", "")
    IN  short_term_ref_pic_sets_from(
            bind(num_short_term_ref_pic_sets, "short_term_ref_pic_sets", <<>>), 0,
            val(num_short_term_ref_pic_sets, "num_short_term_ref_pic_sets"))

\* sps.rs:274-282: long_term_ref_pics_present_flag and what it gates.
num_long_term_ref_pics_sps(s) ==
    LET long_term_ref_pics_present_flag == let_bit(s, "long_term_ref_pics_present_flag")
    IN  IF is_set(long_term_ref_pics_present_flag, "long_term_ref_pics_present_flag")
        THEN panic(let_ue(long_term_ref_pics_present_flag, "num_long_term_ref_pics_sps", "u8"))
        ELSE bind(long_term_ref_pics_present_flag, "num_long_term_ref_pics_sps", 0)

\* sps.rs:287-293: vui_parameters_present_flag and the VUI.
vui_parameters(s) ==
    LET vui_parameters_present_flag == let_bit(s, "vui_parameters_present_flag")
    IN  IF is_set(vui_parameters_present_flag, "vui_parameters_present_flag")
        THEN some(nest(vui_parameters_present_flag, "vui",
                       Vui_from_bit_reader(vui_parameters_present_flag.bits,
                                           vui_parameters_present_flag.rd)),
                  "vui")
        ELSE bind(vui_parameters_present_flag, "vui", None)

\* sps.rs:170-212: up to log2_max_pic_order_cnt_lsb_minus4.
\* Statement i of sps_picture_format.
sps_picture_format_statement(s, i) ==
    CASE i = 1 -> let_u(s, "sps_video_parameter_set_id", 4, 8)
      [] i = 2 -> let_u(s, "sps_max_sub_layers_minus1", 3, 8)
      [] i = 3 -> let_bit(s, "sps_temporal_id_nesting_flag")
      [] i = 4 -> let_profile_tier_level(s, "sps_max_sub_layers_minus1")
      [] i = 5 -> let_ue(s, "sps_seq_parameter_set_id", "u8")
      [] i = 6 -> let_ue(s, "chroma_format_idc", "u8")
      [] i = 7 -> sps_separate_colour_plane_flag(s)
      [] i = 8 -> let_ue(s, "pic_width_in_luma_samples", "")
      [] i = 9 -> let_ue(s, "pic_height_in_luma_samples", "")
      [] i = 10 -> conformance_window(s)
      [] i = 11 -> let_ue(s, "bit_depth_luma_minus8", "u8")
      [] i = 12 -> let_ue(s, "bit_depth_chroma_minus8", "u8")
      [] i = 13 -> let_ue(s, "log2_max_pic_order_cnt_lsb_minus4", "u8")

sps_picture_format(s) ==
    run("sps_picture_format", <<>>, s, 1, 13)

\* sps.rs:213-254: from the sub-layer ordering info to pcm_enabled_flag.
\* Statement i of sps_coding_tools.
sps_coding_tools_statement(s, i) ==
    CASE i = 1 -> sub_layer_ordering_info(s, "sps_sub_layer_ordering_info_present_flag",
                "sps_max_sub_layers_minus1")
      [] i = 2 -> let_ue(s, "log2_min_luma_coding_block_size_minus3", "u8")
      [] i = 3 -> let_ue(s, "log2_diff_max_min_luma_coding_block_size", "u8")
      [] i = 4 -> let_ue(s, "log2_min_luma_transform_block_size_minus2", "u8")
      [] i = 5 -> let_ue(s, "log2_diff_max_min_luma_transform_block_size", "u8")
      [] i = 6 -> let_ue(s, "max_transform_hierarchy_depth_inter", "u8")
      [] i = 7 -> let_ue(s, "max_transform_hierarchy_depth_intra", "u8")
      [] i = 8 -> let_unsupported_bit(s, "scaling_list_enabled_flag")
      [] i = 9 -> let_bit(s, "amp_enabled_flag")
      [] i = 10 -> let_bit(s, "sample_adaptive_offset_enabled_flag")
      [] i = 11 -> let_unsupported_bit(s, "pcm_enabled_flag")
      [] i = 12 -> bind(s, "pcm_loop_filter_disabled_flag", FALSE)

sps_coding_tools(s) ==
    run("sps_coding_tools", <<>>, s, 1, 12)

\* sps.rs:170-328.
\* Statement i of SequenceParameterSet_from_rbsp_reader.
SequenceParameterSet_statement(s, i) ==
    CASE i = 1 -> sps_picture_format(s)
      [] i = 2 -> sps_coding_tools(s)
      [] i = 3 -> short_term_ref_pic_sets(s)
      [] i = 4 -> num_long_term_ref_pics_sps(s)
      [] i = 5 -> let_bit(s, "sps_temporal_mvp_enabled_flag")
      [] i = 6 -> let_bit(s, "strong_intra_smoothing_enabled_flag")
      [] i = 7 -> vui_parameters(s)
      [] i = 8 -> built(s, {"sps_video_parameter_set_id", "sps_max_sub_layers_minus1",
                "sps_temporal_id_nesting_flag", "profile_tier_level",
                "pic_width_in_luma_samples", "pic_height_in_luma_samples",
                "sps_seq_parameter_set_id", "chroma_format_idc", "separate_colour_plane_flag",
                "conformance_window", "bit_depth_luma_minus8", "bit_depth_chroma_minus8",
                "log2_max_pic_order_cnt_lsb_minus4", "sub_layer_ordering_info",
                "log2_min_luma_coding_block_size_minus3",
                "log2_diff_max_min_luma_coding_block_size",
                "log2_min_luma_transform_block_size_minus2",
                "log2_diff_max_min_luma_transform_block_size",
                "max_transform_hierarchy_depth_inter", "max_transform_hierarchy_depth_intra",
                "amp_enabled_flag", "sample_adaptive_offset_enabled_flag",
                "scaling_list_enabled_flag", "pcm_enabled_flag",
                "pcm_loop_filter_disabled_flag", "short_term_ref_pic_sets",
                "long_term_ref_pics_present_flag", "num_long_term_ref_pics_sps",
                "sps_temporal_mvp_enabled_flag", "strong_intra_smoothing_enabled_flag", "vui"})

SequenceParameterSet_from_rbsp_reader(rbsp) ==
    Parsed(run("SequenceParameterSet", <<>>, Parser(BitsOf(rbsp), BitReader(0), 0), 1, 8))

(***************************************************************************)
(* PictureParameterSet::from_rbsp_reader (pps.rs:83-209).                  *)
(***************************************************************************)
\* pps.rs:105-110.
diff_cu_qp_delta_depth(s) ==
    IF is_set(s, "cu_qp_delta_enabled_flag")
    THEN some(let_ue(s, "diff_cu_qp_delta_depth", "u8"), "diff_cu_qp_delta_depth")
    ELSE bind(s, "diff_cu_qp_delta_depth", None)

\* pps.rs:121-130: what tiles_enabled_flag gates.
tiles(s) ==
    IF is_set(s, "tiles_enabled_flag")
    THEN panic(let_ue(let_ue(let_bit(s, "uniform_spacing_flag"), "num_tile_columns_minus1", "u8"),
                      "num_tile_rows_minus1", "u8"))
    ELSE bind(s, "tiles", None)

\* pps.rs:143-149.
pps_deblocking_filter_params(s) ==
    IF ok(s) /\ ~s.f.pps_deblocking_filter_disabled_flag
    THEN let_se(let_se(s, "pps_beta_offset_div2"), "pps_tc_offset_div2")
    ELSE s

\* pps.rs:134-158: what deblocking_filter_control_present_flag gates.
deblocking_filter_control(s) ==
    IF ~is_set(s, "deblocking_filter_control_present_flag")
    THEN bind(s, "deblocking_filter_control", None)
    ELSE bind(pps_deblocking_filter_params(
                  let_bit(let_unsupported_bit(s, "deblocking_filter_override_enabled_flag"),
                          "pps_deblocking_filter_disabled_flag")),
              "deblocking_filter_control", Some("DeblockingFilterControl"))

\* pps.rs:89-104: up to cu_qp_delta_enabled_flag.
\* Statement i of pps_head.
pps_head_statement(s, i) ==
    CASE i = 1 -> let_ue(s, "pps_pic_parameter_set_id", "u8")
      [] i = 2 -> let_ue(s, "pps_seq_parameter_set_id", "u8")
      [] i = 3 -> let_bit(s, "dependent_slice_segments_enabled_flag")
      [] i = 4 -> let_bit(s, "output_flag_present_flag")
      [] i = 5 -> let_u(s, "num_extra_slice_header_bits", 3, 8)
      [] i = 6 -> let_bit(s, "sign_data_hiding_enabled_flag")
      [] i = 7 -> let_bit(s, "cabac_init_present_flag")
      [] i = 8 -> let_ue(s, "num_ref_idx_l0_default_active_minus1", "u8")
      [] i = 9 -> let_ue(s, "num_ref_idx_l1_default_active_minus1", "u8")
      [] i = 10 -> let_se(s, "init_qp_minus26")
      [] i = 11 -> let_bit(s, "constrained_intra_pred_flag")
      [] i = 12 -> let_bit(s, "transform_skip_enabled_flag")
      [] i = 13 -> let_bit(s, "cu_qp_delta_enabled_flag")

pps_head(s) ==
    run("pps_head", <<>>, s, 1, 13)

\* pps.rs:105-131: from diff_cu_qp_delta_depth to the tiles.
\* Statement i of pps_quantisation_and_tiles.
pps_quantisation_and_tiles_statement(s, i) ==
    CASE i = 1 -> diff_cu_qp_delta_depth(s)
      [] i = 2 -> let_se(s, "pps_cb_qp_offset")
      [] i = 3 -> let_se(s, "pps_cr_qp_offset")
      [] i = 4 -> let_bit(s, "pps_slice_chroma_qp_offsets_present_flag")
      [] i = 5 -> let_bit(s, "weighted_pred_flag")
      [] i = 6 -> let_bit(s, "weighted_bipred_flag")
      [] i = 7 -> let_bit(s, "transquant_bypass_enabled_flag")
      [] i = 8 -> let_bit(s, "tiles_enabled_flag")
      [] i = 9 -> let_bit(s, "entropy_coding_sync_enabled_flag")
      [] i = 10 -> tiles(s)

pps_quantisation_and_tiles(s) ==
    run("pps_quantisation_and_tiles", <<>>, s, 1, 10)

\* pps.rs:83-209.
\* Statement i of PictureParameterSet_from_rbsp_reader.
PictureParameterSet_statement(s, i) ==
    CASE i = 1 -> pps_head(s)
      [] i = 2 -> pps_quantisation_and_tiles(s)
      [] i = 3 -> let_bit(s, "pps_loop_filter_across_slices_enabled_flag")
      [] i = 4 -> let_bit(s, "deblocking_filter_control_present_flag")
      [] i = 5 -> deblocking_filter_control(s)
      [] i = 6 -> let_unsupported_bit(s, "pps_scaling_list_data_present_flag")
      [] i = 7 -> let_bit(s, "lists_modification_present_flag")
      [] i = 8 -> let_ue(s, "log2_parallel_merge_level_minus2", "u8")
      [] i = 9 -> let_bit(s, "slice_segment_header_extension_present_flag")
      [] i = 10 -> let_unsupported_bit(s, "pps_extension_present_flag")
      [] i = 11 -> built(s, {"nuh_temporal_id_plus1", "pps_pic_parameter_set_id",
                "pps_seq_parameter_set_id", "dependent_slice_segments_enabled_flag",
                "output_flag_present_flag", "sign_data_hiding_enabled_flag",
                "cabac_init_present_flag", "num_extra_slice_header_bits",
                "num_ref_idx_l0_default_active_minus1", "num_ref_idx_l1_default_active_minus1",
                "init_qp_minus26", "constrained_intra_pred_flag", "transform_skip_enabled_flag",
                "cu_qp_delta_enabled_flag", "diff_cu_qp_delta_depth", "pps_cb_qp_offset",
                "pps_cr_qp_offset", "pps_slice_chroma_qp_offsets_present_flag",
                "weighted_pred_flag", "weighted_bipred_flag", "transquant_bypass_enabled_flag",
                "entropy_coding_sync_enabled_flag", "tiles",
                "pps_loop_filter_across_slices_enabled_flag", "deblocking_filter_control",
                "pps_scaling_list_data_present_flag", "lists_modification_present_flag",
                "log2_parallel_merge_level_minus2",
                "slice_segment_header_extension_present_flag", "pps_extension_present_flag"})

PictureParameterSet_from_rbsp_reader(rbsp, nuh_temporal_id_plus1) ==
    Parsed(run("PictureParameterSet", <<>>, bind(Parser(BitsOf(rbsp), BitReader(0), 0),
        "nuh_temporal_id_plus1", nuh_temporal_id_plus1), 1, 11))

(***************************************************************************)
(* SliceSegmentHeader::from_rbsp_reader and                                *)
(* SliceSegmentLayer::from_rbsp_reader (slice.rs:105-254).                 *)
(***************************************************************************)
\* slice.rs:12-23.
SliceSegmentContext(dependent_slice_segments_enabled_flag, pic_width_in_luma_samples, pic_height_in_luma_samples, log2_min_luma_coding_block_size_minus3, log2_diff_max_min_luma_coding_block_size, num_extra_slice_header_bits, output_flag_present_flag, separate_colour_plane_flag, log2_max_pic_order_cnt_lsb_minus4, num_short_term_ref_pic_sets) ==
    [dependent_slice_segments_enabled_flag |-> dependent_slice_segments_enabled_flag,
     pic_width_in_luma_samples |-> pic_width_in_luma_samples,
     pic_height_in_luma_samples |-> pic_height_in_luma_samples,
     log2_min_luma_coding_block_size_minus3 |-> log2_min_luma_coding_block_size_minus3,
     log2_diff_max_min_luma_coding_block_size |-> log2_diff_max_min_luma_coding_block_size,
     num_extra_slice_header_bits |-> num_extra_slice_header_bits,
     output_flag_present_flag |-> output_flag_present_flag,
     separate_colour_plane_flag |-> separate_colour_plane_flag,
     log2_max_pic_order_cnt_lsb_minus4 |-> log2_max_pic_order_cnt_lsb_minus4,
     num_short_term_ref_pic_sets |-> num_short_term_ref_pic_sets]

\* `(x as f64).log2().ceil() as u32` (slice.rs:141, 208): the cast saturates,
\* so the logarithm of 0 gives 0.
RECURSIVE ceil_log2_from(_, _)
ceil_log2_from(x, k) == IF Shl1(k) >= x THEN k ELSE ceil_log2_from(x, k + 1)

ceil_log2(x) == IF x = 0 THEN 0 ELSE ceil_log2_from(x, 0)

\* slice.rs:134-141: the width of slice_segment_address.  The u8 sums and the
\* shift count are within range in every context of this model, where they
\* are not, the build with overflow checks panics.
slice_segment_address_overflows(ctx) ==
    \/ ctx.log2_min_luma_coding_block_size_minus3 + 3 > 255
    \/ ctx.log2_min_luma_coding_block_size_minus3 + 3
           + ctx.log2_diff_max_min_luma_coding_block_size > 255
    \/ ctx.log2_min_luma_coding_block_size_minus3 + 3
           + ctx.log2_diff_max_min_luma_coding_block_size >= 32

slice_segment_address_length_in_bits(ctx) ==
    LET min_cb_log2_size_y == (ctx.log2_min_luma_coding_block_size_minus3 + 3) % 256
        ctb_log2_size_y ==
            (min_cb_log2_size_y + ctx.log2_diff_max_min_luma_coding_block_size) % 256
        ctb_size_y == Shl1(ctb_log2_size_y % 32)
        pic_width_in_ctbs_y == (ctx.pic_width_in_luma_samples + ctb_size_y - 1) \div ctb_size_y
        pic_height_in_ctbs_y == (ctx.pic_height_in_luma_samples + ctb_size_y - 1) \div ctb_size_y
        pic_size_in_ctbs_y == pic_width_in_ctbs_y * pic_height_in_ctbs_y
    IN  ceil_log2(pic_size_in_ctbs_y)

\* slice.rs:115: BlaWLp <= nal_unit_type <= RsvIrapVcl23.
has_no_output_of_prior_pics_flag(nal_unit_type) ==
    nal_unit_type >= BlaWLp /\ nal_unit_type <= RsvIrapVcl23

\* slice.rs:115-120.
no_output_of_prior_pics_flag(s, nal_unit_type) ==
    IF has_no_output_of_prior_pics_flag(nal_unit_type)
    THEN some(let_bit(s, "no_output_of_prior_pics_flag"), "no_output_of_prior_pics_flag")
    ELSE bind(s, "no_output_of_prior_pics_flag", None)

\* slice.rs:125-130.
slice_dependent_slice_segment_flag(s, ctx) ==
    IF ctx.dependent_slice_segments_enabled_flag
    THEN some(let_bit(s, "dependent_slice_segment_flag"), "dependent_slice_segment_flag")
    ELSE bind(s, "dependent_slice_segment_flag", None)

\* slice.rs:132-143: the arithmetic, then the read.
slice_segment_address(s, ctx) ==
    IF slice_segment_address_overflows(ctx) /\ overflow_checks THEN panic(s)
    ELSE some(let_u(s, "slice_segment_address", slice_segment_address_length_in_bits(ctx), 32),
              "slice_segment_address")

\* slice.rs:123-149: (dependent_slice_segment_flag, slice_segment_address).
slice_segment_addressing(s, ctx) ==
    IF ~ok(s) THEN s
    ELSE IF s.f.first_slice_segment_in_pic_flag
    THEN bind(bind(s, "dependent_slice_segment_flag", None), "slice_segment_address", None)
    ELSE slice_segment_address(slice_dependent_slice_segment_flag(s, ctx), ctx)

\* slice.rs:151-156: the fields as they are before the block of slice.rs:158.
absent_fields(s) ==
    bind(bind(bind(bind(bind(bind(s, "slice_pic_order_cnt_lsb", None),
                                  "short_term_ref_pic_set_sps_flag", None),
                             "short_term_ref_pic_set", None),
                        "short_term_ref_pic_set_size", None),
                   "short_term_ref_pic_set_idx", None),
         "curr_rps_idx", 0)

\* slice.rs:164-167: `.try_into().unwrap()` on a code above 2 panics.
slice_type(s) ==
    LET code == let_ue(s, "slice_type", "u8")
    IN  IF val(code, "slice_type") > 2 THEN panic(code) ELSE code

\* slice.rs:168-173.
pic_output_flag(s, ctx) ==
    IF ctx.output_flag_present_flag THEN let_bit(s, "pic_output_flag") ELSE s

\* slice.rs:174-179.
colour_plane_id(s, ctx) ==
    IF ctx.separate_colour_plane_flag THEN let_u(s, "colour_plane_id", 2, 8) ELSE s

\* slice.rs:190: the u8 sum, then the read of a u16.
slice_pic_order_cnt_lsb(s, ctx) ==
    IF ctx.log2_max_pic_order_cnt_lsb_minus4 + 4 > 255 /\ overflow_checks THEN panic(s)
    ELSE some(let_u(s, "slice_pic_order_cnt_lsb",
                    (ctx.log2_max_pic_order_cnt_lsb_minus4 + 4) % 256, 16),
              "slice_pic_order_cnt_lsb")

\* slice.rs:193-212: what follows short_term_ref_pic_set_sps_flag.
curr_rps_idx_always_count(short_term_ref_pic_set_sps_flag, num_short_term_ref_pic_sets, short_term_ref_pic_set_idx) ==
    num_short_term_ref_pic_sets

curr_rps_idx_of(short_term_ref_pic_set_sps_flag, num_short_term_ref_pic_sets, short_term_ref_pic_set_idx) ==
    IF ~short_term_ref_pic_set_sps_flag THEN num_short_term_ref_pic_sets
    ELSE IF num_short_term_ref_pic_sets > 1 THEN short_term_ref_pic_set_idx
    ELSE 0

\* slice.rs:204: `bit_count as u16`.
short_term_ref_pic_set_size_of(bit_count) == as_u16(bit_count)

\* slice.rs:194-204: the set signalled in the header.
short_term_ref_pic_set_in_header(s, ctx) ==
    LET set == ShortTermReferencePictureSet_from_bit_reader(
                   s.bits, s.rd, ctx.num_short_term_ref_pic_sets,
                   ctx.num_short_term_ref_pic_sets, 0)
    IN  bind(some(nest(bind(s, "curr_rps_idx",
                            curr_rps_idx_of(FALSE, ctx.num_short_term_ref_pic_sets, 0)),
                       "short_term_ref_pic_set", set),
                  "short_term_ref_pic_set"),
             "short_term_ref_pic_set_size", Some(short_term_ref_pic_set_size_of(set.bit_count)))

\* slice.rs:206-212: the index of a set of the SPS.
short_term_ref_pic_set_idx(s, ctx) ==
    LET value == let_u(s, "short_term_ref_pic_set_idx",
                       ceil_log2(ctx.num_short_term_ref_pic_sets), 8)
    IN  bind(some(value, "short_term_ref_pic_set_idx"), "curr_rps_idx",
             curr_rps_idx_of(TRUE, ctx.num_short_term_ref_pic_sets,
                             val(value, "short_term_ref_pic_set_idx")))

\* slice.rs:193-212.
short_term_ref_pic_set_choice(s, ctx) ==
    IF ~ok(s) THEN s
    ELSE IF s.f.short_term_ref_pic_set_sps_flag = Some(FALSE)
    THEN short_term_ref_pic_set_in_header(s, ctx)
    ELSE IF ctx.num_short_term_ref_pic_sets > 1
    THEN short_term_ref_pic_set_idx(s, ctx)
    ELSE bind(s, "curr_rps_idx", curr_rps_idx_of(TRUE, ctx.num_short_term_ref_pic_sets, 0))

\* slice.rs:188-213: the fields of a slice segment that is not of an IDR picture.
non_idr_fields(s, nal_unit_type, ctx) ==
    IF is_idr(nal_unit_type) THEN s
    ELSE short_term_ref_pic_set_choice(
             some(let_bit(slice_pic_order_cnt_lsb(s, ctx), "short_term_ref_pic_set_sps_flag"),
                  "short_term_ref_pic_set_sps_flag"),
             ctx)

\* slice.rs:158: whether the block of an independent slice segment is parsed.
parses_independent_fields(dependent_slice_segment_flag) ==
    ~(is_some(dependent_slice_segment_flag) /\ unwrap(dependent_slice_segment_flag))

\* slice.rs:158-214: the block of an independent slice segment.
\* Statement i of independent_fields.
independent_fields_statement(s, i, nal_unit_type, ctx) ==
    CASE i = 1 -> drop_bits(s, ctx.num_extra_slice_header_bits)
      [] i = 2 -> slice_type(s)
      [] i = 3 -> pic_output_flag(s, ctx)
      [] i = 4 -> colour_plane_id(s, ctx)
      [] i = 5 -> non_idr_fields(s, nal_unit_type, ctx)

independent_fields(s, nal_unit_type, ctx) ==
    IF ~ok(s) THEN s
    ELSE IF ~parses_independent_fields(s.f.dependent_slice_segment_flag) THEN s
    ELSE run("independent_fields", <<nal_unit_type, ctx>>, s, 1, 5)

\* slice.rs:105-230.
\* Statement i of SliceSegmentHeader_from_rbsp_reader.
SliceSegmentHeader_statement(s, i, nal_unit_type, slice_segment_context) ==
    CASE i = 1 -> let_bit(s, "first_slice_segment_in_pic_flag")
      [] i = 2 -> no_output_of_prior_pics_flag(s, nal_unit_type)
      [] i = 3 -> let_ue(s, "slice_pic_parameter_set_id", "u8")
      [] i = 4 -> slice_segment_addressing(s, slice_segment_context)
      [] i = 5 -> absent_fields(s)
      [] i = 6 -> independent_fields(s, nal_unit_type, slice_segment_context)
      [] i = 7 -> built(s, {"nal_unit_type", "first_slice_segment_in_pic_flag",
                "no_output_of_prior_pics_flag", "slice_pic_parameter_set_id",
                "dependent_slice_segment_flag", "slice_segment_address",
                "short_term_ref_pic_set_sps_flag", "short_term_ref_pic_set",
                "short_term_ref_pic_set_size", "slice_pic_order_cnt_lsb",
                "short_term_ref_pic_set_idx", "curr_rps_idx"})

SliceSegmentHeader_from_rbsp_reader(rbsp, nal_unit_type, slice_segment_context) ==
    Parsed(run("SliceSegmentHeader", <<nal_unit_type, slice_segment_context>>,
        bind(Parser(BitsOf(rbsp), BitReader(0), 0), "nal_unit_type", nal_unit_type), 1, 7))

(***************************************************************************)
(* The statements of the blocks above, and their execution in order.       *)
(***************************************************************************)
statement(block, args, s, i) ==
    CASE block = "profile_block" -> profile_block_statement(s, i)
      [] block = "ProfileTierLevel" -> ProfileTierLevel_statement(s, i, args[1])
      [] block = "vps_timing_info" -> vps_timing_info_statement(s, i)
      [] block = "VideoParameterSet" -> VideoParameterSet_statement(s, i)
      [] block = "InterRefPicSetPrediction" ->
            InterRefPicSetPrediction_statement(s, i, args[1], args[2])
      [] block = "NonInterRefPicSetPrediction" -> NonInterRefPicSetPrediction_statement(s, i)
      [] block = "video_signal_type" -> video_signal_type_statement(s, i)
      [] block = "vui_timing_info" -> vui_timing_info_statement(s, i)
      [] block = "Vui" -> Vui_statement(s, i)
      [] block = "sps_picture_format" -> sps_picture_format_statement(s, i)
      [] block = "sps_coding_tools" -> sps_coding_tools_statement(s, i)
      [] block = "SequenceParameterSet" -> SequenceParameterSet_statement(s, i)
      [] block = "pps_head" -> pps_head_statement(s, i)
      [] block = "pps_quantisation_and_tiles" -> pps_quantisation_and_tiles_statement(s, i)
      [] block = "PictureParameterSet" -> PictureParameterSet_statement(s, i)
      [] block = "independent_fields" -> independent_fields_statement(s, i, args[1], args[2])
      [] block = "SliceSegmentHeader" -> SliceSegmentHeader_statement(s, i, args[1], args[2])

\* Statements lo..hi of a block, from state s on: in four parts, so that no
\* statement is evaluated inside the evaluation of the one after it.
part_size(lo, hi) == (hi - lo + 4) \div 4

min(a, b) == IF a < b THEN a ELSE b

run(block, args, s, lo, hi) ==
    IF lo > hi THEN s
    ELSE IF lo = hi THEN statement(block, args, s, lo)
    ELSE LET q == part_size(lo, hi)
             a == run(block, args, s, lo, lo + q - 1)
             b == run(block, args, a, lo + q, min(lo + 2 * q - 1, hi))
             c == run(block, args, b, lo + 2 * q, min(lo + 3 * q - 1, hi))
             d == run(block, args, c, lo + 3 * q, hi)
         IN  in_order(<<a, b, c, d>>)

\* slice.rs:237-254: the whole RBSP is read, and the header parsed from it.
SliceSegmentLayer_from_rbsp_reader(rbsp, value_length, nal_unit_type, slice_segment_context) ==
    IF Len(rbsp) < value_length
    THEN [kind |-> "UnexpectedEof", pos |-> Len(rbsp), value |-> NoValue]
    ELSE LET header == SliceSegmentHeader_from_rbsp_reader(SubSeq(rbsp, 1, value_length),
                                                           nal_unit_type, slice_segment_context)
         IN  [kind |-> header.kind, pos |-> value_length, value |-> [header |-> header.value]]

(***************************************************************************)
(* NaluHeader and NaluType::try_from (nalu.rs:206-261).                    *)
(***************************************************************************)
\* The codes TryFrom<u8> for NaluType accepts.
TryFromCodes ==
    {0, 1, 8, 9, 16, 17, 18, 19, 20, 21, 22, 23, 32, 33, 34, 35}

try_from_accepts(code) == code \in TryFromCodes

\* nalu.rs:208-224: two bytes: forbidden_zero_bit, nal_unit_type (6), nuh_layer_id (6),
\* nuh_temporal_id_plus1 (3).  The reads come first, the type check after them.
NaluHeader_from_reader(src, p) ==
    IF Avail(src, p) < 2
    THEN Ret("UnexpectedEof", Len(src), NoValue, 0)
    ELSE LET b0 == src[p + 1]
             b1 == src[p + 2]
             code == (b0 \div 2) % 64
             header == [nal_unit_type |-> code,
                        nuh_layer_id |-> (b0 % 2) * 32 + (b1 \div 8),
                        nuh_temporal_id_plus1 |-> b1 % 8]
         IN  IF try_from_accepts(code)
             THEN Ret("Ok", p + 2, header, 2)
             ELSE Ret("InvalidData", p + 2, NoValue, 2)

\* nalu.rs:386-396 with From<u8> for PicType (nalu.rs:373-382): three bits of
\* the first RBSP byte; a pic_type above 2 panics.
AccessUnitDelimiter_from_rbso_reader(rbsp) ==
    IF Len(rbsp) < 1 THEN "UnexpectedEof"
    ELSE IF rbsp[1] \div 32 > 2 THEN "panic"
    ELSE "Ok"

\* The types of the first arm of the dispatch (nalu.rs:341).
SliceArmTypes == {TrailR, TrailN, IdrWRadl, IdrNLp, CraNut, RaslN, RaslR}

\* What the dispatch returns: how the parser ended and the NaluValue.
Dispatched(kind, value) == [kind |-> kind, value |-> IF kind = "Ok" THEN value ELSE NoValue]

\* `.map(NaluValue::X)` on what a parser returned (nalu.rs:346-366): name is
\* the variant's.
Dispatched_as(name, parsed) == Dispatched(parsed.kind, (name :> parsed.value))

\* nalu.rs:340-369: the dispatch on the header's type, given the RBSP.  In the
\* slice arm `expect` is evaluated before the parser is called.
NaluValue_dispatch_default_context(nalu_header, rbsp, slice_segment_context) ==
    LET t == nalu_header.nal_unit_type
    IN  CASE t \in SliceArmTypes ->
                LET ctx == IF is_some(slice_segment_context)
                           THEN unwrap(slice_segment_context)
                           ELSE SliceSegmentContext(FALSE, 0, 0, 0, 0, 0, FALSE, FALSE, 0, 0)
                IN  Dispatched_as("CodedSliceSegment",
                                  SliceSegmentLayer_from_rbsp_reader(rbsp, Len(rbsp), t, ctx))
          [] t = VpsNut ->
                Dispatched_as("VpsNut", VideoParameterSet_from_rbsp_reader(rbsp))
          [] t = SpsNut ->
                Dispatched_as("SpsNut", SequenceParameterSet_from_rbsp_reader(rbsp))
          [] t = PpsNut ->
                Dispatched_as("PpsNut",
                              PictureParameterSet_from_rbsp_reader(
                                  rbsp, nalu_header.nuh_temporal_id_plus1))
          [] t = AudNut ->
                Dispatched(AccessUnitDelimiter_from_rbso_reader(rbsp),
                           [AudNut |-> [pic_type |-> IF rbsp = <<>> THEN 0 ELSE rbsp[1] \div 32]])
          [] OTHER -> Dispatched("panic", NoValue)

NaluValue_dispatch(nalu_header, rbsp, slice_segment_context) ==
    LET t == nalu_header.nal_unit_type
    IN  CASE t \in SliceArmTypes ->
                IF ~is_some(slice_segment_context)
                THEN Dispatched("panic", NoValue)
                ELSE Dispatched_as("CodedSliceSegment",
                                   SliceSegmentLayer_from_rbsp_reader(
                                       rbsp, Len(rbsp), t, unwrap(slice_segment_context)))
          [] t = VpsNut ->
                Dispatched_as("VpsNut", VideoParameterSet_from_rbsp_reader(rbsp))
          [] t = SpsNut ->
                Dispatched_as("SpsNut", SequenceParameterSet_from_rbsp_reader(rbsp))
          [] t = PpsNut ->
                Dispatched_as("PpsNut",
                              PictureParameterSet_from_rbsp_reader(
                                  rbsp, nalu_header.nuh_temporal_id_plus1))
          [] t = AudNut ->
                Dispatched(AccessUnitDelimiter_from_rbso_reader(rbsp),
                           [AudNut |-> [pic_type |-> IF rbsp = <<>> THEN 0 ELSE rbsp[1] \div 32]])
          [] OTHER -> Dispatched("panic", NoValue)

\* What a reader-level function returns, given what the dispatch returned.
Returned(d, p, consumed) == Ret(d.kind, p, d.value, consumed)

\* nalu.rs:295-370: read value_length bytes of EBSP, strip the emulation
\* prevention bytes, dispatch.
NaluValue_from_ebsp_reader(src, p, header, value_length, slice_segment_context) ==
    IF Avail(src, p) < value_length
    THEN Ret("UnexpectedEof", Len(src), NoValue, 0)
    ELSE Returned(NaluValue_dispatch(header, ebsp_to_rbsp(Bytes(src, p, value_length)),
                                     slice_segment_context),
                  p + value_length, value_length)

\* nalu.rs:199-202: `Ok(Self { header, value })`, v being what
\* NaluValue::from_ebsp_reader returned.
Nalu_of(header, v) ==
    IF v.kind # "Ok" THEN v
    ELSE Ret("Ok", v.pos, [header |-> header, value |-> v.value], v.consumed)

\* nalu.rs:193-203.  `length - 2` on a usize: for length < 2 it panics in a
\* build with overflow checks, and wraps to 2^64 - 2 + length in one without,
\* where Vec::with_capacity then panics (capacity overflow).
Nalu_from_reader(src, p, length, slice_segment_context) ==
    LET h == NaluHeader_from_reader(src, p)
    IN  IF h.kind # "Ok" THEN h
        ELSE IF length < 2 THEN Ret("panic", h.pos, NoValue, 0)
        ELSE Nalu_of(h.value,
                     NaluValue_from_ebsp_reader(src, h.pos, h.value, length - 2,
                                                slice_segment_context))

\* nalu.rs:188-191.
Nalu_from_bytes(bytes, slice_segment_context) ==
    Nalu_from_reader(bytes, 0, Len(bytes), slice_segment_context)

\* nalu_ref.rs:17-26: the header only; reports HEADER_BYTES = 2 consumed.
NaluRef_from_reader(src, p, offset) ==
    LET h == NaluHeader_from_reader(src, p)
    IN  IF h.kind # "Ok" THEN h
        ELSE Ret("Ok", h.pos, [offset |-> offset, nal_unit_type |-> h.value.nal_unit_type], 2)

(***************************************************************************)
(* LengthPrefixedByteStreamContentReader (bytestream.rs:93-174).           *)
(***************************************************************************)
\* bytestream.rs:165-173.
read_length(src, p, lsm1) ==
    IF Avail(src, p) < lsm1 + 1
    THEN Ret("UnexpectedEof", Len(src), NoValue, 0)
    ELSE Ret("Ok", p + lsm1 + 1, BigEndian(Bytes(src, p, lsm1 + 1)), lsm1 + 1)

\* bytestream.rs:52-80: ReadContent for NaluReader (reports `length` consumed)
\* and for NaluRefReader (reports what NaluRef::from_reader consumed).
NaluReader_content(n, length) ==
    IF n.kind = "Ok" THEN Ret("Ok", n.pos, n.value, length) ELSE n

ContentReader_read_content(dec, src, p, length, offset, slice_segment_context) ==
    IF dec = "Nalu"
    THEN NaluReader_content(Nalu_from_reader(src, p, length, slice_segment_context), length)
    ELSE NaluRef_from_reader(src, p, offset)

\* bytestream.rs:152-153: io::Cursor::seek(SeekFrom::Current(n)); the position
\* may pass the end of the data.
seek_current_ignored(p, n) == p

seek_current(p, n) == p + n

\* bytestream.rs:156.
consumed_without_prefix_byte(lsm1, length) == lsm1 + length

consumed_of(lsm1, length) == lsm1 + 1 + length

\* bytestream.rs:127-163.  `length - content_consumed` on a usize: for a
\* smaller length it panics in a build with overflow checks, and wraps in one
\* without, where `remaining.try_into().unwrap()` (usize to i64) then panics.
skip_remaining(c, lsm1, offset, length) ==
    LET remaining == length - c.consumed
        after == IF remaining > 0 THEN seek_current(c.pos, remaining) ELSE c.pos
    IN  IF c.kind # "Ok" THEN ReadRet(c.kind, c.pos, NoValue, 0, offset, length)
        ELSE IF length < c.consumed THEN ReadRet("panic", c.pos, NoValue, 0, offset, length)
        ELSE ReadRet("Ok", after, c.value, consumed_of(lsm1, length), offset, length)

read_content(dec, src, p, lsm1, offset_in, slice_segment_context) ==
    LET l == read_length(src, p, lsm1)
        length == l.value
        offset == offset_in + lsm1 + 1
    IN  IF l.kind # "Ok" THEN ReadRet(l.kind, l.pos, NoValue, 0, 0, 0)
        ELSE skip_remaining(ContentReader_read_content(dec, src, l.pos, length, offset,
                                                       slice_segment_context),
                            lsm1, offset, length)

\* bytestream.rs:115: which errors end the loop with Ok.
ends_loop_any_error(kind) == kind \in {"UnexpectedEof", "InvalidData"}

ends_loop(kind) == kind = "UnexpectedEof"

ByteStreamContent(r) ==
    [offset |-> r.offset, value |-> r.value, consumed |-> r.consumed]

\* bytestream.rs:235.
nal_unit_size_with_prefix_byte(consumed, lsm1) == consumed - lsm1

nal_unit_size(consumed, lsm1) == consumed - (lsm1 + 1)

\* bytestream.rs:211-244: the loop over nalu_contents from entry i on, given
\* the outputs so far.  The slice of the source panics when it passes its end.
RECURSIVE convert_from(_, _, _, _, _, _)
convert_from(stream, lsm1, nalu_contents, i, offsets, annex_b) ==
    IF i > Len(nalu_contents)
    THEN [kind |-> "Ok", slice_segment_offsets |-> offsets, annex_b_byte_stream |-> annex_b]
    ELSE LET nalu_content == nalu_contents[i]
             start_code_offset == Len(annex_b)
             size == nal_unit_size(nalu_content.consumed, lsm1)
         IN  IF nalu_content.offset + size > Len(stream)
             THEN [kind |-> "panic", slice_segment_offsets |-> offsets,
                   annex_b_byte_stream |-> annex_b]
             ELSE convert_from(stream, lsm1, nalu_contents, i + 1,
                               Append(offsets, start_code_offset),
                               annex_b \o <<0, 0, 1>> \o Bytes(stream, nalu_content.offset, size))

convert_length_prefixed_to_annex_b(stream, lsm1, nalu_contents) ==
    convert_from(stream, lsm1, nalu_contents, 1, <<>>, <<>>)

(***************************************************************************)
(* Spec: one reader read until end of data, then the conversion.           *)
(***************************************************************************)
\* Bounds: the records of a source, and the bytes cut off its end.
MaxRecords == 3
MaxCut == 2

\* length_size_minus_one of the readers: 1- and 2-byte length fields.
LengthSizes == {0, 1}

\* The NAL units the sources are made of (header, then EBSP):
\*   an access unit delimiter (pic_type 2), one with an emulation prevention
\*   byte, one without payload, one with pic_type 3;
\*   a RADL_N unit and a unit of the unassigned type 48;
\*   a TRAIL_R slice and a BLA_W_LP slice;
\*   a unit of one byte and an empty unit.
FramerUnits ==
    { <<70, 1, 80>>, <<70, 1, 0, 0, 3, 80>>, <<70, 1>>, <<70, 1, 96>>,
      <<12, 1, 80>>, <<96, 1>>,
      <<2, 1, 80>>, <<32, 1, 80>>,
      <<70>>, <<>> }

\* A length as lsm1 + 1 big-endian bytes (all lengths here are below 256).
LengthField(n, lsm1) == IF lsm1 = 0 THEN <<n>> ELSE <<0, n>>

RECURSIVE LengthPrefixed(_, _)
LengthPrefixed(units, lsm1) ==
    IF units = <<>> THEN <<>>
    ELSE LengthField(Len(units[1]), lsm1) \o units[1] \o LengthPrefixed(Tail(units), lsm1)

\* The readers of Spec are built with NaluValueContext::default().
nalu_value_context == [slice_segment_context |-> None]

PocIdle ==
    /\ is_first_picture = PocDefault.is_first_picture
    /\ ref_pic_order_cnt_msb = PocDefault.ref_pic_order_cnt_msb
    /\ ref_pic_order_cnt_lsb = PocDefault.ref_pic_order_cnt_lsb
    /\ overflow_checks = TRUE
    /\ sps_log2_max_pic_order_cnt_lsb_minus4 = 0
    /\ last = NoCall
    /\ true_cnt = 0

Init ==
    /\ \E units \in UNION {[1..n -> FramerUnits] : n \in 0..MaxRecords},
          cut \in 0..MaxCut, lsm1 \in LengthSizes :
            LET stream == LengthPrefixed(units, lsm1)
            IN  /\ cut <= Len(stream)
                /\ source = SubSeq(stream, 1, Len(stream) - cut)
                /\ length_size_minus_one = lsm1
    /\ decoder \in {"Nalu", "NaluRef"}
    /\ pos = 0
    /\ current_offset = 0
    /\ contents = <<>>
    /\ result = "running"
    /\ last_read = NoRead
    /\ slice_segment_offsets = <<>>
    /\ annex_b_byte_stream = <<>>
    /\ pc = "reading"
    /\ PocIdle
    /\ ParseIdle

\* bytestream.rs:100-125: one iteration of the loop of read_contents_until_eof;
\* r is what read_content returned.
loop_body(r) ==
    /\ last_read' = [kind |-> r.kind, length |-> r.length, consumed |-> r.consumed]
    /\ pos' = r.pos
    /\ IF r.kind = "Ok"
       THEN /\ current_offset' = current_offset + r.consumed
            /\ contents' = Append(contents, ByteStreamContent(r))
            /\ UNCHANGED <<result, pc>>
       ELSE /\ result' = IF ends_loop(r.kind) THEN "Ok" ELSE r.kind
            /\ pc' = "returned"
            /\ UNCHANGED <<current_offset, contents>>

ReadContentsUntilEof ==
    /\ pc = "reading"
    /\ loop_body(read_content(decoder, source, pos, length_size_minus_one, current_offset,
                              nalu_value_context.slice_segment_context))
    /\ UNCHANGED <<source, length_size_minus_one, decoder, slice_segment_offsets,
                   annex_b_byte_stream, pocVars, parseVars>>

\* bytestream.rs:176-208: parse_length_prefixed_and_convert_to_annex_b unwraps
\* the result of the NAL unit reader and converts its contents.
ParseAndConvertToAnnexB ==
    /\ pc = "returned"
    /\ decoder = "Nalu"
    /\ result # "panic"
    /\ LET c == convert_length_prefixed_to_annex_b(source, length_size_minus_one, contents)
       IN  IF result = "Ok" /\ c.kind = "Ok"
           THEN /\ slice_segment_offsets' = c.slice_segment_offsets
                /\ annex_b_byte_stream' = c.annex_b_byte_stream
                /\ pc' = "converted"
           ELSE /\ pc' = "panicked"
                /\ UNCHANGED <<slice_segment_offsets, annex_b_byte_stream>>
    /\ UNCHANGED <<source, pos, length_size_minus_one, decoder, current_offset, contents,
                   result, last_read, pocVars, parseVars>>

Next == ReadContentsUntilEof \/ ParseAndConvertToAnnexB

Spec == Init /\ [][Next]_vars

(***************************************************************************)
(* Claims about the framer.  The record structure of a source is read off  *)
(* the format (a length field of N bytes, then that many bytes), not off   *)
(* the reader.                                                             *)
(***************************************************************************)
LengthSize == length_size_minus_one + 1

\* The records that lie wholly in src from position p on, and whether src
\* ends at a record boundary after them.
RECURSIVE RecordsFrom(_, _, _)
RecordsFrom(src, n, p) ==
    IF p = Len(src) THEN [recs |-> <<>>, clean |-> TRUE]
    ELSE IF Len(src) - p < n THEN [recs |-> <<>>, clean |-> FALSE]
    ELSE LET len == BigEndian(Bytes(src, p, n))
         IN  IF Len(src) - (p + n) < len THEN [recs |-> <<>>, clean |-> FALSE]
             ELSE LET rest == RecordsFrom(src, n, p + n + len)
                  IN  [recs |-> <<[offset |-> p + n, length |-> len]>> \o rest.recs,
                       clean |-> rest.clean]

SourceRecords == RecordsFrom(source, LengthSize, 0)

RecordBytes(rec) == Bytes(source, rec.offset, rec.length)

\* What the per-record decoder makes of a record's bytes on their own.
DecodedAlone(rec) ==
    IF decoder = "Nalu"
    THEN Nalu_from_bytes(RecordBytes(rec), nalu_value_context.slice_segment_context).kind
    ELSE NaluRef_from_reader(RecordBytes(rec), 0, 0).kind

WellFormedRecords ==
    \A i \in 1..Len(SourceRecords.recs) : DecodedAlone(SourceRecords.recs[i]) = "Ok"

\* C1: when the source ends inside a record (inside the length field, or
\* before the declared number of payload bytes) after well-formed records,
\* read_contents_until_eof returns an error, for both decoders.
C1_MidRecordEofIsError ==
    (pc # "reading" /\ ~SourceRecords.clean /\ WellFormedRecords)
        => result \in {"UnexpectedEof", "InvalidData"}

\* C2: on a source of k well-formed records that ends at a record boundary
\* read_contents_until_eof returns Ok with exactly k entries.
C2_CleanEofReturnsAll ==
    (pc # "reading" /\ SourceRecords.clean /\ WellFormedRecords)
        => /\ result = "Ok"
           /\ last_read.kind = "UnexpectedEof"
           /\ Len(contents) = Len(SourceRecords.recs)
           /\ pos = Len(source)

\* Three access unit delimiters behind 2-byte length fields, all returned.
C2_Witness ==
    /\ pc = "returned"
    /\ decoder = "Nalu"
    /\ length_size_minus_one = 1
    /\ SourceRecords.clean
    /\ WellFormedRecords
    /\ Len(SourceRecords.recs) = 3
    /\ Len(contents) = 3
    /\ result = "Ok"

\* The length declared by the length field in front of offset.
DeclaredLength(offset) == BigEndian(Bytes(source, offset - LengthSize, LengthSize))

\* C3: the entries are in source order: the first offset is N, every entry
\* has consumed = N + its declared length, and each next offset is the
\* previous offset plus the previous declared length plus N.
C3_OffsetsInSourceOrder ==
    \A i \in 1..Len(contents) :
        /\ i = 1 => contents[i].offset = LengthSize
        /\ contents[i].consumed = LengthSize + DeclaredLength(contents[i].offset)
        /\ i > 1 => /\ contents[i].offset =
                         contents[i - 1].offset + DeclaredLength(contents[i - 1].offset)
                             + LengthSize
                    /\ contents[i].offset > contents[i - 1].offset

\* Three entries of different lengths behind 2-byte length fields.
C3_Witness ==
    /\ Len(contents) = 3
    /\ length_size_minus_one = 1
    /\ DeclaredLength(contents[1].offset) # DeclaredLength(contents[2].offset)
    /\ contents[3].offset = 2 + DeclaredLength(2) + 2 + DeclaredLength(contents[2].offset) + 2

\* The index of the first record that is not well-formed, 0 when all are.
FirstBad ==
    LET bad == {i \in 1..Len(SourceRecords.recs) : DecodedAlone(SourceRecords.recs[i]) # "Ok"}
    IN  IF bad = {} THEN 0 ELSE CHOOSE i \in bad : \A j \in bad : i <= j

\* C4: when the first record that fails to parse fails with InvalidData,
\* read_contents_until_eof returns that error, whatever number of records
\* were parsed before it.
C4_OtherErrorsPropagate ==
    /\ (pc # "reading" /\ FirstBad # 0
            /\ DecodedAlone(SourceRecords.recs[FirstBad]) = "InvalidData")
        => result = "InvalidData"
    /\ (pc # "reading" /\ last_read.kind = "InvalidData") => result = "InvalidData"

\* A RADL_N unit or a unit of type 48 after two parsed records.
C4_Witness ==
    /\ pc = "returned"
    /\ FirstBad = 3
    /\ DecodedAlone(SourceRecords.recs[3]) = "InvalidData"
    /\ Len(contents) = 2
    /\ result = "InvalidData"

\* Start code, then the record's bytes, for each record in order.
RECURSIVE AnnexBOf(_)
AnnexBOf(recs) ==
    IF recs = <<>> THEN <<>>
    ELSE <<0, 0, 1>> \o RecordBytes(recs[1]) \o AnnexBOf(Tail(recs))

RECURSIVE PayloadsOf(_)
PayloadsOf(recs) ==
    IF recs = <<>> THEN <<>> ELSE RecordBytes(recs[1]) \o PayloadsOf(Tail(recs))

RECURSIVE SumOfSizes(_, _)
SumOfSizes(recs, n) ==
    IF n = 0 THEN 0 ELSE SumOfSizes(recs, n - 1) + 3 + recs[n].length

\* The output without the three bytes at each recorded start code offset.
WithoutStartCodes(annex_b, offsets) ==
    LET keep == {j \in 1..Len(annex_b) :
                    \A i \in 1..Len(offsets) : j <= offsets[i] \/ j > offsets[i] + 3}
        F[j \in 0..Len(annex_b)] ==
            IF j = 0 THEN <<>>
            ELSE IF j \in keep THEN Append(F[j - 1], annex_b[j]) ELSE F[j - 1]
    IN  F[Len(annex_b)]

IsComputeCall(c) == c.op \in {"compute_poc", "compute_poc_ex"}

CallLsb(c) == unwrap(c.lsb)

CallMax(c) == Pow2(c.log2 + 4)

\* C6: compute_poc and compute_poc_ex return 0 for every IDR picture
\* (IDR_W_RADL, IDR_N_LP), in every state of the PocComputer and for every
\* LSB, LSB bit-width and temporal-id argument.
C6_IdrYieldsZero ==
    (IsComputeCall(last) /\ last.type \in {IdrWRadl, IdrNLp})
        => (~last.panicked /\ last.ret = 0)

\* An IDR_N_LP header without an LSB, with nuh_temporal_id_plus1 = 0, given to
\* compute_poc in the steady state with a stored LSB.
C6_Witness ==
    /\ last.op = "compute_poc"
    /\ last.type = IdrNLp
    /\ last.lsb = None
    /\ last.tidp1 = 0
    /\ ~is_first_picture
    /\ ref_pic_order_cnt_lsb # 0
    /\ last.ret = 0

\* C7: after an IDR picture has been fed to compute_poc / compute_poc_ex the
\* stored state is the initial one: is_first_picture = TRUE,
\* ref_pic_order_cnt_msb = 0 and ref_pic_order_cnt_lsb = 0.
C7_IdrResetsState ==
    (IsComputeCall(last) /\ last.type \in {IdrWRadl, IdrNLp})
        => /\ is_first_picture = TRUE
           /\ ref_pic_order_cnt_msb = 0
           /\ ref_pic_order_cnt_lsb = 0

IsMsbCorrectionStep ==
    /\ IsComputeCall(last')
    /\ last'.ex
    /\ ~last'.panicked
    /\ last'.type \notin {IdrWRadl, IdrNLp}
    /\ ~(/\ last'.type \in {BlaWLp, BlaWRadl, BlaNLp, CraNut, RsvIrapVcl22, RsvIrapVcl23}
         /\ (last'.type \in {BlaWLp, BlaWRadl, BlaNLp} \/ is_first_picture))

\* C9 as stated: MSB minus MaxPicOrderCntLsb when the new LSB is smaller than
\* the stored LSB by more than half the range, plus MaxPicOrderCntLsb when it
\* is larger by more than half the range, unchanged otherwise; the returned
\* POC is that MSB plus slice_pic_order_cnt_lsb.
C9_Original ==
    [][IsMsbCorrectionStep =>
        LET lsb == CallLsb(last')
            max == CallMax(last')
            msb == IF lsb < ref_pic_order_cnt_lsb /\ ref_pic_order_cnt_lsb - lsb > max \div 2
                   THEN ref_pic_order_cnt_msb - max
                   ELSE IF lsb > ref_pic_order_cnt_lsb /\ lsb - ref_pic_order_cnt_lsb > max \div 2
                   THEN ref_pic_order_cnt_msb + max
                   ELSE ref_pic_order_cnt_msb
        IN  last'.msb = msb /\ last'.ret = msb + lsb]_vars

\* C9 (amended): for a non-IDR picture that is not an IRAP picture with
\* NoRaslOutputFlag = 1, PicOrderCntMsb is the stored MSB plus
\* MaxPicOrderCntLsb when the new LSB is smaller than the stored LSB by at
\* least half the range, the stored MSB minus MaxPicOrderCntLsb when the new
\* LSB is larger than the stored LSB by more than half the range, and the
\* stored MSB otherwise; the returned POC is that MSB plus
\* slice_pic_order_cnt_lsb.
C9_MsbCorrection ==
    [][IsMsbCorrectionStep =>
        LET lsb == CallLsb(last')
            max == CallMax(last')
            msb == IF lsb < ref_pic_order_cnt_lsb /\ ref_pic_order_cnt_lsb - lsb >= max \div 2
                   THEN ref_pic_order_cnt_msb + max
                   ELSE IF lsb > ref_pic_order_cnt_lsb /\ lsb - ref_pic_order_cnt_lsb > max \div 2
                   THEN ref_pic_order_cnt_msb - max
                   ELSE ref_pic_order_cnt_msb
        IN  last'.msb = msb /\ last'.ret = msb + lsb]_vars

\* A trailing picture of temporal id 1 (which leaves the stored pair alone)
\* whose LSB 0 is smaller than the stored LSB by exactly half the range: its
\* MSB is the stored MSB plus MaxPicOrderCntLsb.
C9_Witness ==
    /\ last.op = "compute_poc_ex"
    /\ last.type = TrailR
    /\ last.tidp1 = 2
    /\ ~last.panicked
    /\ CallLsb(last) = 0
    /\ ref_pic_order_cnt_lsb = CallMax(last) \div 2
    /\ last.msb = ref_pic_order_cnt_msb + CallMax(last)
    /\ last.ret = last.msb

HeaderSecondBytes == {0, 1, 10, 248, 255}

HeaderInit ==
    /\ \E b0 \in 0..255, b1 \in HeaderSecondBytes, n \in 0..2 :
            input = SubSeq(<<b0, b1>>, 1, n)
    /\ arguments = [op |-> "NaluHeader::from_reader"]
    /\ outcome = NoOutcome
    /\ PocIdle
    /\ FramerIdle

\* nalu.rs:208-224.
NaluHeaderFromReader ==
    /\ arguments.op = "NaluHeader::from_reader"
    /\ outcome = NoOutcome
    /\ LET r == NaluHeader_from_reader(input, 0)
       IN  outcome' = [op |-> "NaluHeader::from_reader", kind |-> r.kind, pos |-> r.pos,
                       value |-> r.value]
    /\ UNCHANGED <<input, arguments, pocVars, framerVars>>

HeaderNext == NaluHeaderFromReader

HeaderSpec == HeaderInit /\ [][HeaderNext]_vars

\* C11: on every 2-byte input NaluHeader::from_reader returns Ok with the
\* 6-bit type, the 6-bit layer id and the 3-bit temporal-id-plus-1 when the
\* type code is a member of the NaluType enum, and fails with InvalidData
\* when the 6-bit code is not a member.
C11_TaxonomyAcceptedOthersRejected ==
    (outcome.op = "NaluHeader::from_reader" /\ Len(input) = 2) =>
        LET code == (input[1] \div 2) % 64
        IN  /\ code \in NaluType =>
                /\ outcome.kind = "Ok"
                /\ outcome.value.nal_unit_type = code
                /\ outcome.value.nuh_layer_id = (input[1] % 2) * 32 + (input[2] \div 8)
                /\ outcome.value.nuh_temporal_id_plus1 = input[2] % 8
            /\ code \notin NaluType => outcome.kind = "InvalidData"

(***************************************************************************)
(* The inputs: payloads as an H.265 encoder writes them (Rec. ITU-T H.265  *)
(* 7.3), built from a choice of syntax element values.  A parser is then   *)
(* judged against the values that were written.                            *)
(***************************************************************************)
\* BitWriter::write(n, v): the n low bits of v, most significant first.
write(n, v) ==
    [i \in 1..n |-> IF n - i > 30 THEN 0 ELSE (v \div Shl1(n - i)) % 2]

zeros(n) == [i \in 1..n |-> 0]

ones(n) == [i \in 1..n |-> 1]

\* 32 - leading_zeros() of a positive u32.
RECURSIVE num_bits(_)
num_bits(v) == IF v = 0 THEN 0 ELSE 1 + num_bits(v \div 2)

\* base.rs:118-142, the used bits of the code word.
en_exp_golomb_ue(code_num) ==
    LET code_num_plus1 == code_num + 1
        num_bits_code_num_plus1 == num_bits(code_num_plus1)
        leading_zero_count == num_bits_code_num_plus1 - 1
    IN  zeros(leading_zero_count) \o write(num_bits_code_num_plus1, code_num_plus1)

\* H.265 9.2.2, table 9-3: the code number of a signed value.
en_exp_golomb_se(v) == en_exp_golomb_ue(IF v > 0 THEN 2 * v - 1 ELSE 0 - 2 * v)

\* The bytes of a bit string, the last byte filled with zero bits.
bytes_of(bits) ==
    LET filled == bits \o zeros((8 - (Len(bits) % 8)) % 8)
    IN  [i \in 1..(Len(filled) \div 8) |-> BitsValue(filled, 8 * (i - 1), 8)]

\* rbsp_trailing_bits(): a one bit, then zero bits up to the byte boundary.
rbsp_of(bits) == bytes_of(Append(bits, 1))

flag(b) == <<IF b THEN 1 ELSE 0>>

RECURSIVE concat(_)
concat(seqs) == IF seqs = <<>> THEN <<>> ELSE Head(seqs) \o concat(Tail(seqs))

\* H.265 7.3.3, the profile part of profile_tier_level(): 2 + 1 + 5 + 32 + 4
\* bits, 43 bits of constraint flags and reserved bits, and one more bit.
profile_bits(profile_idc) ==
    write(2, 0) \o <<0>> \o write(5, profile_idc)
    \o [j \in 1..32 |-> IF j - 1 = profile_idc THEN 1 ELSE 0]
    \o <<1, 0, 0, 1>> \o zeros(43) \o <<0>>

\* H.265 7.3.3 profile_tier_level(1, maxNumSubLayersMinus1), one record of
\* sub_layers per sub-layer: the two presence flags and the level written.
profile_tier_level_bits(profile_idc, level_idc, sub_layers) ==
    LET n == Len(sub_layers)
    IN  profile_bits(profile_idc) \o write(8, level_idc)
        \o concat([i \in 1..n |-> flag(sub_layers[i].profile_present)
                                  \o flag(sub_layers[i].level_present)])
        \o (IF n > 0 THEN zeros(2 * (8 - n)) ELSE <<>>)
        \o concat([i \in 1..n |->
                     (IF sub_layers[i].profile_present
                      THEN profile_bits(profile_idc) ELSE <<>>)
                     \o (IF sub_layers[i].level_present
                         THEN write(8, sub_layers[i].level_idc) ELSE <<>>)])

\* H.265 7.3.2.1/7.3.2.2: the ordering information of sub-layers from..to.
sub_layer_ordering_info_bits(from, to) ==
    concat([i \in 1..(to - from + 1) |->
              en_exp_golomb_ue(1) \o en_exp_golomb_ue(0) \o en_exp_golomb_ue(0)])

\* H.265 7.3.2.1 video_parameter_set_rbsp().
vps_bits(f) ==
    LET n == Len(f.sub_layers)
    IN  write(4, 0) \o <<1, 1>> \o write(6, 0) \o write(3, n) \o <<1>> \o ones(16)
        \o profile_tier_level_bits(f.profile_idc, 93, f.sub_layers)
        \o flag(f.sub_layer_ordering_info_present_flag)
        \o sub_layer_ordering_info_bits(
               IF f.sub_layer_ordering_info_present_flag THEN 0 ELSE n, n)
        \o write(6, 0) \o en_exp_golomb_ue(f.vps_num_layer_sets_minus1)
        \o zeros(f.vps_num_layer_sets_minus1)
        \o flag(f.vps_timing_info_present_flag)
        \o (IF f.vps_timing_info_present_flag
            THEN write(32, 1001) \o write(32, 60000) \o <<0>>
                 \o en_exp_golomb_ue(f.vps_num_hrd_parameters)
                 \* hrd_layer_set_idx and a minimal hrd_parameters()
                 \o (IF f.vps_num_hrd_parameters > 0
                     THEN en_exp_golomb_ue(0) \o zeros(8) ELSE <<>>)
            ELSE <<>>)
        \o flag(f.vps_extension_flag)
        \* vps_extension_data_flag bits
        \o (IF f.vps_extension_flag THEN <<0, 1, 0>> ELSE <<>>)

\* H.265 7.3.7 st_ref_pic_set(stRpsIdx), coded directly: s0 and s1 are the
\* lists of [delta_poc_minus1, used_by_curr_pic_flag].
st_ref_pic_set_bits(st_rps_index, s0, s1) ==
    (IF st_rps_index # 0 THEN <<0>> ELSE <<>>)
    \o en_exp_golomb_ue(Len(s0)) \o en_exp_golomb_ue(Len(s1))
    \o concat([i \in 1..Len(s0) |->
                 en_exp_golomb_ue(s0[i].delta_poc_minus1) \o flag(s0[i].used_by_curr_pic_flag)])
    \o concat([i \in 1..Len(s1) |->
                 en_exp_golomb_ue(s1[i].delta_poc_minus1) \o flag(s1[i].used_by_curr_pic_flag)])

\* H.265 E.2.1 vui_parameters(); f.vui names the one optional part present.
vui_bits(f) ==
    <<0>>
    \o flag(f.vui = "overscan_info") \o (IF f.vui = "overscan_info" THEN <<1>> ELSE <<>>)
    \o <<0>> \o <<0>> \o <<0, 0, 0>>
    \o flag(f.vui = "default_display_window")
    \o (IF f.vui = "default_display_window"
        THEN concat([i \in 1..4 |-> en_exp_golomb_ue(0)]) ELSE <<>>)
    \o flag(f.vui \in {"timing_info", "hrd_parameters"})
    \o (IF f.vui \in {"timing_info", "hrd_parameters"}
        THEN write(32, 1001) \o write(32, 60000) \o <<0>>
             \o flag(f.vui = "hrd_parameters")
             \o (IF f.vui = "hrd_parameters" THEN zeros(8) ELSE <<>>)
        ELSE <<>>)
    \o flag(f.vui = "bitstream_restriction")
    \o (IF f.vui = "bitstream_restriction"
        THEN <<0, 1, 0>> \o concat([i \in 1..5 |-> en_exp_golomb_ue(0)]) ELSE <<>>)

\* H.265 7.3.2.2 seq_parameter_set_rbsp().
sps_bits(f) ==
    LET n == Len(f.sub_layers)
    IN  write(4, 0) \o write(3, n) \o <<1>>
        \o profile_tier_level_bits(f.profile_idc, 93, f.sub_layers)
        \o en_exp_golomb_ue(0) \o en_exp_golomb_ue(f.chroma_format_idc)
        \o (IF f.chroma_format_idc = 3 THEN <<0>> ELSE <<>>)
        \o en_exp_golomb_ue(64) \o en_exp_golomb_ue(32)
        \o flag(f.conformance_window_flag)
        \o (IF f.conformance_window_flag
            THEN concat([i \in 1..4 |-> en_exp_golomb_ue(i - 1)]) ELSE <<>>)
        \o en_exp_golomb_ue(0) \o en_exp_golomb_ue(0) \o en_exp_golomb_ue(4)
        \o flag(f.sub_layer_ordering_info_present_flag)
        \o sub_layer_ordering_info_bits(
               IF f.sub_layer_ordering_info_present_flag THEN 0 ELSE n, n)
        \o en_exp_golomb_ue(0) \o en_exp_golomb_ue(1) \o en_exp_golomb_ue(0)
        \o en_exp_golomb_ue(3) \o en_exp_golomb_ue(0) \o en_exp_golomb_ue(0)
        \o flag(f.scaling_list_enabled_flag)
        \* sps_scaling_list_data_present_flag
        \o (IF f.scaling_list_enabled_flag THEN <<0>> ELSE <<>>)
        \o <<1, 1>>
        \o flag(f.pcm_enabled_flag)
        \o (IF f.pcm_enabled_flag
            THEN write(4, 7) \o write(4, 7) \o en_exp_golomb_ue(0) \o en_exp_golomb_ue(0)
                 \o <<0>>
            ELSE <<>>)
        \o en_exp_golomb_ue(f.num_short_term_ref_pic_sets)
        \o concat([i \in 1..f.num_short_term_ref_pic_sets |->
                     st_ref_pic_set_bits(i - 1,
                         <<[delta_poc_minus1 |-> i - 1, used_by_curr_pic_flag |-> TRUE]>>,
                         <<>>)])
        \o flag(f.long_term_ref_pics_present_flag)
        \o (IF f.long_term_ref_pics_present_flag THEN en_exp_golomb_ue(0) ELSE <<>>)
        \o <<1, 1>>
        \o flag(f.vui # "absent")
        \o (IF f.vui # "absent" THEN vui_bits(f) ELSE <<>>)
        \* sps_extension_present_flag
        \o <<0>>

\* H.265 7.3.2.3 pic_parameter_set_rbsp().
pps_bits(f) ==
    en_exp_golomb_ue(0) \o en_exp_golomb_ue(0)
    \o flag(f.dependent_slice_segments_enabled_flag) \o <<0>>
    \o write(3, f.num_extra_slice_header_bits) \o <<0, 0>>
    \o en_exp_golomb_ue(0) \o en_exp_golomb_ue(0) \o en_exp_golomb_se(f.init_qp_minus26)
    \o <<0, 0>>
    \o flag(f.cu_qp_delta_enabled_flag)
    \o (IF f.cu_qp_delta_enabled_flag THEN en_exp_golomb_ue(1) ELSE <<>>)
    \o en_exp_golomb_se(0) \o en_exp_golomb_se(0) \o <<0, 0, 0, 0>>
    \o flag(f.tiles_enabled_flag) \o <<0>>
    \* num_tile_columns_minus1, num_tile_rows_minus1, uniform_spacing_flag,
    \* loop_filter_across_tiles_enabled_flag
    \o (IF f.tiles_enabled_flag
        THEN en_exp_golomb_ue(1) \o en_exp_golomb_ue(0) \o <<1>> \o <<1>> ELSE <<>>)
    \o <<1>>
    \o flag(f.deblocking_filter_control # "absent")
    \o (IF f.deblocking_filter_control # "absent"
        THEN flag(f.deblocking_filter_control = "override") \o <<0>>
             \o en_exp_golomb_se(1) \o en_exp_golomb_se(0 - 1)
        ELSE <<>>)
    \o flag(f.pps_scaling_list_data_present_flag)
    \* scaling_list_data(), cut short
    \o (IF f.pps_scaling_list_data_present_flag THEN zeros(8) ELSE <<>>)
    \o <<0>> \o en_exp_golomb_ue(0) \o <<0>>
    \o flag(f.pps_extension_present_flag)
    \* pps_range_extension_flag .. pps_extension_4bits
    \o (IF f.pps_extension_present_flag THEN zeros(8) ELSE <<>>)

\* H.265 7.3.6.1 slice_segment_header() up to the short-term reference
\* picture set, for a NAL unit of type nal_unit_type under the parameter sets
\* summarised by ctx; the rest of the header and the slice data are f.rest.
slice_segment_bits(f, nal_unit_type, ctx) ==
    LET dependent == /\ ~f.first_slice_segment_in_pic_flag
                     /\ ctx.dependent_slice_segments_enabled_flag
                     /\ f.dependent_slice_segment_flag
    IN  flag(f.first_slice_segment_in_pic_flag)
        \o (IF nal_unit_type >= BlaWLp /\ nal_unit_type <= RsvIrapVcl23 THEN <<0>> ELSE <<>>)
        \o en_exp_golomb_ue(0)
        \o (IF ~f.first_slice_segment_in_pic_flag
            THEN (IF ctx.dependent_slice_segments_enabled_flag
                  THEN flag(f.dependent_slice_segment_flag) ELSE <<>>)
                 \o write(slice_segment_address_length_in_bits(ctx), 1)
            ELSE <<>>)
        \o (IF ~dependent
            THEN zeros(ctx.num_extra_slice_header_bits)
                 \o en_exp_golomb_ue(f.slice_type)
                 \o (IF ctx.output_flag_present_flag THEN <<1>> ELSE <<>>)
                 \o (IF ctx.separate_colour_plane_flag THEN write(2, 0) ELSE <<>>)
                 \o (IF ~is_idr(nal_unit_type)
                     THEN write(ctx.log2_max_pic_order_cnt_lsb_minus4 + 4,
                                f.slice_pic_order_cnt_lsb)
                          \o flag(f.short_term_ref_pic_set_sps_flag)
                          \o (IF ~f.short_term_ref_pic_set_sps_flag
                              THEN st_ref_pic_set_bits(ctx.num_short_term_ref_pic_sets,
                                                       f.s0, f.s1)
                              ELSE IF ctx.num_short_term_ref_pic_sets > 1
                              THEN write(ceil_log2(ctx.num_short_term_ref_pic_sets),
                                         f.short_term_ref_pic_set_idx)
                              ELSE <<>>)
                     ELSE <<>>)
            ELSE <<>>)
        \o f.rest

\* H.265 7.4.2: the NAL unit payload of an RBSP, an emulation prevention
\* byte 3 inserted after two zero bytes that a byte of 0..3 follows.
\* The count restarts after an inserted byte, so the byte at i gets one in front
\* of it when it is 0..3 and an even number (2 or more) of zero bytes precede it.
zero_run_before(rbsp, i) ==
    CHOOSE z \in 0..(i - 1) :
        /\ \A q \in (i - z)..(i - 1) : rbsp[q] = 0
        /\ (z = i - 1 \/ rbsp[i - z - 1] # 0)

RECURSIVE with_emulation_prevention(_, _, _)
with_emulation_prevention(rbsp, lo, places) ==
    IF places = {} THEN SubSeq(rbsp, lo, Len(rbsp))
    ELSE LET i == CHOOSE p \in places : \A q \in places : p <= q
         IN  SubSeq(rbsp, lo, i - 1) \o <<3>>
             \o with_emulation_prevention(rbsp, i, places \ {i})

ebsp_of(rbsp) ==
    with_emulation_prevention(
        rbsp, 1,
        {i \in 1..Len(rbsp) :
            /\ rbsp[i] <= 3
            /\ LET z == zero_run_before(rbsp, i) IN z >= 2 /\ z % 2 = 0})

\* The state of a specification of one parser call: no PocComputer and no
\* framer at work, the build either with or without overflow checks.
OnlyParser ==
    /\ is_first_picture = PocDefault.is_first_picture
    /\ ref_pic_order_cnt_msb = PocDefault.ref_pic_order_cnt_msb
    /\ ref_pic_order_cnt_lsb = PocDefault.ref_pic_order_cnt_lsb
    /\ overflow_checks \in BOOLEAN
    /\ sps_log2_max_pic_order_cnt_lsb_minus4 = 0
    /\ last = NoCall
    /\ true_cnt = 0
    /\ FramerIdle

\* What a parser call returned, as the outcome of the step.
Outcome(op, r) == [op |-> op, kind |-> r.kind, pos |-> r.pos, value |-> r.value]

(***************************************************************************)
(* The values written.                                                     *)
(***************************************************************************)
SubLayerShapes ==
    {<<>>} \cup {<<[profile_present |-> p, level_present |-> l, level_idc |-> 60]>> :
                    p \in BOOLEAN, l \in BOOLEAN}

VpsFields ==
    [profile_idc : {1}, sub_layers : SubLayerShapes,
     sub_layer_ordering_info_present_flag : BOOLEAN,
     vps_num_layer_sets_minus1 : {0, 1},
     vps_timing_info_present_flag : BOOLEAN,
     vps_num_hrd_parameters : {0, 1},
     vps_extension_flag : BOOLEAN]

SpsFields ==
    [profile_idc : {1},
     sub_layers : {<<>>, <<[profile_present |-> TRUE, level_present |-> TRUE, level_idc |-> 60]>>},
     sub_layer_ordering_info_present_flag : {TRUE},
     chroma_format_idc : {1, 3},
     conformance_window_flag : BOOLEAN,
     scaling_list_enabled_flag : BOOLEAN,
     pcm_enabled_flag : BOOLEAN,
     num_short_term_ref_pic_sets : {0, 2},
     long_term_ref_pics_present_flag : BOOLEAN,
     vui : {"absent", "plain", "overscan_info", "default_display_window", "timing_info",
            "hrd_parameters", "bitstream_restriction"}]

PpsFields ==
    [dependent_slice_segments_enabled_flag : BOOLEAN,
     num_extra_slice_header_bits : {0, 1},
     init_qp_minus26 : {0 - 2, 0, 3},
     cu_qp_delta_enabled_flag : BOOLEAN,
     tiles_enabled_flag : BOOLEAN,
     deblocking_filter_control : {"absent", "present", "override"},
     pps_scaling_list_data_present_flag : BOOLEAN,
     pps_extension_present_flag : BOOLEAN]

\* Two parameter-set summaries: a plain one, and one that turns every optional
\* field of the slice segment header on.
PlainContext == SliceSegmentContext(FALSE, 64, 32, 0, 1, 0, FALSE, FALSE, 0, 0)

RichContext == SliceSegmentContext(TRUE, 64, 64, 0, 1, 1, TRUE, TRUE, 4, 3)

SliceRest == <<1, 0, 1, 1, 0, 0, 1, 0, 1, 1, 1, 0, 0, 1, 0, 1>>

DeltaPocLists ==
    {<<>>,
     <<[delta_poc_minus1 |-> 0, used_by_curr_pic_flag |-> TRUE]>>,
     <<[delta_poc_minus1 |-> 2, used_by_curr_pic_flag |-> FALSE],
       [delta_poc_minus1 |-> 0, used_by_curr_pic_flag |-> TRUE]>>}

SliceFields ==
    [first_slice_segment_in_pic_flag : BOOLEAN,
     dependent_slice_segment_flag : BOOLEAN,
     slice_type : {0, 2},
     slice_pic_order_cnt_lsb : {5, 15},
     short_term_ref_pic_set_sps_flag : BOOLEAN,
     short_term_ref_pic_set_idx : {0, 2, 3},
     s0 : DeltaPocLists, s1 : {<<>>, <<[delta_poc_minus1 |-> 1, used_by_curr_pic_flag |-> TRUE]>>},
     rest : {SliceRest}]

(***************************************************************************)
(* One call of NaluValue::from_ebsp_reader on the payload of a NAL unit    *)
(* whose header was accepted.                                              *)
(***************************************************************************)
NaluSliceFields ==
    {f \in SliceFields : /\ f.slice_type = 0 /\ f.slice_pic_order_cnt_lsb = 5
                         /\ f.s0 # <<>> /\ f.s1 = <<>>
                         /\ f.short_term_ref_pic_set_idx = 2}

NaluVpsFields ==
    {f \in VpsFields : /\ f.vps_num_layer_sets_minus1 = 0
                       /\ f.vps_num_hrd_parameters = 0
                       /\ f.sub_layer_ordering_info_present_flag
                       /\ \A i \in 1..Len(f.sub_layers) : f.sub_layers[i].profile_present}

NaluSpsFields ==
    {f \in SpsFields : /\ f.chroma_format_idc = 1 /\ ~f.conformance_window_flag
                       /\ f.vui \in {"absent", "timing_info"}
                       /\ ~f.long_term_ref_pics_present_flag}

NaluPpsFields ==
    {f \in PpsFields : /\ f.init_qp_minus26 = 0 /\ f.deblocking_filter_control # "override"
                       /\ ~f.cu_qp_delta_enabled_flag}

\* The payloads (RBSP) written for a NAL unit of type t under the context ctx.
NaluPayloads(t, ctx) ==
    CASE t \in SliceArmTypes ->
            {rbsp_of(slice_segment_bits(f, t, ctx)) : f \in NaluSliceFields}
      [] t = VpsNut -> {rbsp_of(vps_bits(f)) : f \in NaluVpsFields}
      [] t = SpsNut -> {rbsp_of(sps_bits(f)) : f \in NaluSpsFields}
      [] t = PpsNut -> {rbsp_of(pps_bits(f)) : f \in NaluPpsFields}
      [] t = AudNut -> {<<16>>, <<80>>, <<112>>}
      [] OTHER -> {<<1, 2, 3>>}

NaluInit ==
    /\ \E t \in TryFromCodes, tid \in {1, 2}, ctx \in {PlainContext, RichContext} :
         \E rbsp \in NaluPayloads(t, ctx), cut \in {0, 1},
            slice_segment_context \in {None, Some(ctx)} :
            /\ input = ebsp_of(rbsp)
            /\ arguments = [op |-> "NaluValue::from_ebsp_reader",
                            nalu_header |-> [nal_unit_type |-> t, nuh_layer_id |-> 0,
                                             nuh_temporal_id_plus1 |-> tid],
                            value_length |-> Len(input) + cut,
                            slice_segment_context |-> slice_segment_context]
    /\ outcome = NoOutcome
    /\ OnlyParser

NaluValueFromEbspReader ==
    /\ arguments.op = "NaluValue::from_ebsp_reader"
    /\ outcome = NoOutcome
    /\ outcome' = Outcome(arguments.op,
                          NaluValue_from_ebsp_reader(input, 0, arguments.nalu_header,
                                                     arguments.value_length,
                                                     arguments.slice_segment_context))
    /\ UNCHANGED <<input, arguments, pocVars, framerVars>>

NaluNext == NaluValueFromEbspReader

NaluSpec == NaluInit /\ [][NaluNext]_vars

\* C12: for the coded-slice types the dispatch parses (TRAIL_N, TRAIL_R,
\* IDR_W_RADL, IDR_N_LP, CRA, RASL_N, RASL_R), a call without a slice segment
\* context never returns a value: it panics as soon as the payload has been
\* read (and fails with the read's error when the payload is cut short); for
\* VPS, SPS, PPS and AUD the call returns what it returns with a context.
C12_SliceNeedsContext ==
    (outcome.op = "NaluValue::from_ebsp_reader") =>
        LET t == arguments.nalu_header.nal_unit_type
            without == arguments.slice_segment_context = None
        IN  /\ (t \in {0, 1, 19, 20, 21, 8, 9} /\ without)
                => /\ outcome.kind # "Ok"
                   /\ outcome.value = NoValue
                   /\ (arguments.value_length <= Len(input)) => outcome.kind = "panic"
            /\ (t \in {32, 33, 34, 35})
                => \A ctx \in {None, Some(PlainContext), Some(RichContext)} :
                      outcome = Outcome(arguments.op,
                                        NaluValue_from_ebsp_reader(
                                            input, 0, arguments.nalu_header,
                                            arguments.value_length, ctx))

\* An IDR slice segment whose payload was read in full, parsed without a
\* context: the call panicked.
C12_Witness ==
    /\ outcome.op = "NaluValue::from_ebsp_reader"
    /\ arguments.nalu_header.nal_unit_type = 19
    /\ arguments.slice_segment_context = None
    /\ arguments.value_length = Len(input)
    /\ outcome.kind = "panic"

(***************************************************************************)
(* TypeSpec: the predicates of NaluType (nalu.rs:144-185) called on a      *)
(* member of the enum.                                                     *)
(***************************************************************************)
TypeInit ==
    /\ \E t \in NaluType : arguments = [op |-> "NaluType", self |-> t]
    /\ input = <<>>
    /\ outcome = NoOutcome
    /\ PocIdle
    /\ FramerIdle

Answer(name, value) ==
    /\ arguments.op = "NaluType"
    /\ outcome' = [op |-> name, kind |-> "Ok", value |-> value]
    /\ UNCHANGED <<input, arguments, pocVars, framerVars>>

IsIrap == Answer("is_irap", is_irap(arguments.self))

IsRadl == Answer("is_radl", is_radl(arguments.self))

IsRasl == Answer("is_rasl", is_rasl(arguments.self))

IsBla == Answer("is_bla", is_bla(arguments.self))

IsIdr == Answer("is_idr", is_idr(arguments.self))

IsReference == Answer("is_reference", is_reference(arguments.self))

IsCodedSliceSegment == Answer("is_coded_slice_segment", is_coded_slice_segment(arguments.self))

TypeNext ==
    IsIrap \/ IsRadl \/ IsRasl \/ IsBla \/ IsIdr \/ IsReference \/ IsCodedSliceSegment

TypeSpec == TypeInit /\ [][TypeNext]_vars

\* C21: is_coded_slice_segment returns true for exactly the VCL members of
\* NaluType, those with code below 32 (the reserved types 10, 12, 14, 22 and
\* 23 included), and false for VPS, SPS, PPS and AUD.
C21_CodedSliceSegmentIsVcl ==
    outcome.op = "is_coded_slice_segment" => (outcome.value <=> (arguments.self < 32))

\* C22: the stored pair (ref_pic_order_cnt_msb, ref_pic_order_cnt_lsb) is the
\* (PicOrderCntMsb, slice_pic_order_cnt_lsb) of the most recent non-IDR
\* picture with TemporalId 0 that is not a RASL, RADL or sub-layer
\* non-reference picture: such a picture sets the pair, every other picture
\* (a TRAIL_N picture with TemporalId 0 among them) leaves it unchanged.
C22_RefPairIsPrevTid0Pic ==
    [][(IsComputeCall(last') /\ ~last'.panicked) =>
        LET t == last'.type
            prev_tid0_pic ==
                /\ last'.tidp1 = 1
                /\ t \notin {IdrWRadl, IdrNLp}
                /\ t \notin {RadlN, RadlR, RaslN, RaslR}
                /\ ~(t < 16 /\ t % 2 = 0)
        IN  IF prev_tid0_pic
            THEN /\ ref_pic_order_cnt_msb' = last'.msb
                 /\ ref_pic_order_cnt_lsb' = CallLsb(last')
            ELSE /\ ref_pic_order_cnt_msb' = ref_pic_order_cnt_msb
                 /\ ref_pic_order_cnt_lsb' = ref_pic_order_cnt_lsb]_vars

\* C23: the PocComputer is in the first-picture state (is_first_picture =
\* TRUE) when created and after reset(), and in the steady state
\* (is_first_picture = FALSE) after any picture processed by compute_poc or
\* compute_poc_ex; so a CRA picture that follows a processed picture gets
\* NoRaslOutputFlag = 0: its PicOrderCntMsb is derived from the stored pair.
C23_FirstPictureThenSteady ==
    /\ [](last.op \in {"new", "reset"} => is_first_picture)
    /\ []((IsComputeCall(last) /\ ~last.panicked) => ~is_first_picture)
    /\ [][(/\ IsComputeCall(last) /\ ~last.panicked
           /\ IsComputeCall(last') /\ ~last'.panicked /\ last'.type = CraNut)
            => last'.msb = pic_order_cnt_msb(Self, CraNut, FALSE, CallLsb(last'),
                                             CallMax(last'))]_vars

\* The entry the last call of read_content returned.
LastContent == contents[Len(contents)]

\* C24: when read_content returns a record, the source is positioned at the
\* record's offset plus its declared length, with the NAL unit decoder and
\* with the NAL unit reference decoder.
C24_PositionedAfterRecord ==
    last_read.kind = "Ok" => pos = LastContent.offset + last_read.length

\* The reference decoder has returned the second record of a source, a
\* record of 6 bytes of which it read 2 and skipped 4, and a record follows.
C24_Witness ==
    /\ decoder = "NaluRef"
    /\ last_read.kind = "Ok"
    /\ Len(contents) = 2
    /\ last_read.length = 6
    /\ pos = LastContent.offset + 6
    /\ pos < Len(source)

\* nalu.rs:340-368: the arm of the match a type is dispatched to.
dispatch_arm(t) ==
    CASE t \in {TrailR, TrailN, IdrWRadl, IdrNLp, CraNut, RaslN, RaslR} -> "CodedSliceSegment"
      [] t = VpsNut -> "VpsNut"
      [] t = SpsNut -> "SpsNut"
      [] t = PpsNut -> "PpsNut"
      [] t = AudNut -> "AudNut"
      [] OTHER -> "Unsupported"

\* C25: a NAL unit whose header NaluHeader::from_reader accepts is routed,
\* given a slice segment context, to the slice, VPS, SPS, PPS or AUD parser:
\* no call panics in the 'Unsupported NAL unit type' arm.
C25_AcceptedTypesAreRouted ==
    (/\ outcome.op = "NaluValue::from_ebsp_reader"
     /\ try_from_accepts(arguments.nalu_header.nal_unit_type)
     /\ arguments.slice_segment_context # None
     /\ arguments.value_length <= Len(input))
        => ~(/\ dispatch_arm(arguments.nalu_header.nal_unit_type) = "Unsupported"
             /\ outcome.kind = "panic")

\* C26: with log2_max_pic_order_cnt_lsb_minus4 fixed and every
\* slice_pic_order_cnt_lsb in [0, MaxPicOrderCntLsb), ref_pic_order_cnt_msb
\* is a multiple of MaxPicOrderCntLsb, ref_pic_order_cnt_lsb is in
\* [0, MaxPicOrderCntLsb), and the POC returned for a non-IDR picture is
\* congruent to the picture's slice_pic_order_cnt_lsb modulo MaxPicOrderCntLsb.
C26_MsbMultipleLsbInRange ==
    /\ ref_pic_order_cnt_msb % MaxPicOrderCntLsb = 0
    /\ ref_pic_order_cnt_lsb \in 0..(MaxPicOrderCntLsb - 1)
    /\ (IsComputeCall(last) /\ ~last.panicked /\ ~is_idr(last.type))
            => last.ret % MaxPicOrderCntLsb = CallLsb(last)

\* A picture whose LSB is above the stored LSB by more than half the range:
\* its PicOrderCntMsb is -MaxPicOrderCntLsb, its POC negative, and it has
\* become the stored pair.
C26_Witness ==
    /\ IsComputeCall(last)
    /\ ~last.panicked
    /\ last.type = TrailR
    /\ last.msb = 0 - MaxPicOrderCntLsb
    /\ last.ret < 0
    /\ CallLsb(last) = MaxPicOrderCntLsb - 1
    /\ ref_pic_order_cnt_msb = last.msb
    /\ ref_pic_order_cnt_lsb = CallLsb(last)

\* Where the record of the last call of read_content ends: its offset plus
\* its declared length.
LastRecordEnd ==
    IF last_read.kind = "Ok" THEN current_offset
    ELSE current_offset + LengthSize + last_read.length

\* C27: for every declared record length, 0 and 1 included, the decoder
\* reads no byte beyond the record, and the remainders (length - consumed,
\* length - 2) are never negative: a record shorter than the 2-byte header
\* neither takes bytes of the record after it nor makes the call panic.
C27_ShortRecordStaysInside ==
    last_read.kind # "none" =>
        /\ pos <= LastRecordEnd
        /\ ~(last_read.kind = "panic" /\ last_read.length < 2)

\* C28: every entry read_contents_until_eof has collected lies wholly inside
\* the source: its offset plus its consumed count less the length field's
\* size is at most the length of the source, with both decoders.
C28_EntriesLieInsideSource ==
    \A i \in 1..Len(contents) :
        contents[i].offset + (contents[i].consumed - LengthSize) <= Len(source)

(***************************************************************************)
(* SliceSpec: SliceSegmentHeader::from_rbsp_reader on the header written   *)
(* for a choice of field values, under either context.                     *)
(***************************************************************************)
\* The types of the slice segments: trailing (reference and non-reference),
\* RASL, both IDR types and CRA.
SliceTypes == {TrailN, TrailR, RaslR, IdrWRadl, IdrNLp, CraNut}

SliceInit ==
    /\ \E t \in SliceTypes, ctx \in {PlainContext, RichContext}, f \in SliceFields :
            /\ input = rbsp_of(slice_segment_bits(f, t, ctx))
            /\ arguments = [op |-> "SliceSegmentHeader::from_rbsp_reader",
                            nal_unit_type |-> t, slice_segment_context |-> ctx,
                            written |-> f]
    /\ outcome = NoOutcome
    /\ OnlyParser

SliceSegmentHeaderFromRbspReader ==
    /\ arguments.op = "SliceSegmentHeader::from_rbsp_reader"
    /\ outcome = NoOutcome
    /\ outcome' = Outcome(arguments.op,
                          SliceSegmentHeader_from_rbsp_reader(
                              input, arguments.nal_unit_type,
                              arguments.slice_segment_context))
    /\ UNCHANGED <<input, arguments, pocVars, framerVars>>

\* The header returned holds a set read from the header itself.
ReturnedSet == unwrap(outcome.value.short_term_ref_pic_set)

HasReturnedSet ==
    /\ outcome.op = "SliceSegmentHeader::from_rbsp_reader"
    /\ outcome.kind = "Ok"
    /\ is_some(outcome.value.short_term_ref_pic_set)

\* rps.rs:138-144, on the set of the returned header.
BitmaskUsedByCurrPicS0Flag ==
    /\ HasReturnedSet
    /\ outcome' = [op |-> "bitmask_used_by_curr_pic_s0_flag", kind |-> "Ok",
                   self |-> ReturnedSet,
                   value |-> bitmask_used_by_curr_pic_s0_flag(ReturnedSet)]
    /\ UNCHANGED <<input, arguments, pocVars, framerVars>>

\* rps.rs:145-151, on the set of the returned header.
BitmaskUsedByCurrPicS1Flag ==
    /\ HasReturnedSet
    /\ outcome' = [op |-> "bitmask_used_by_curr_pic_s1_flag", kind |-> "Ok",
                   self |-> ReturnedSet,
                   value |-> bitmask_used_by_curr_pic_s1_flag(ReturnedSet)]
    /\ UNCHANGED <<input, arguments, pocVars, framerVars>>

SliceNext ==
    \/ SliceSegmentHeaderFromRbspReader
    \/ BitmaskUsedByCurrPicS0Flag
    \/ BitmaskUsedByCurrPicS1Flag

SliceSpec == SliceInit /\ [][SliceNext]_vars

\* C29: in every slice segment header returned, curr_rps_idx is at most
\* num_short_term_ref_pic_sets and short_term_ref_pic_set_idx, when present,
\* is below num_short_term_ref_pic_sets, also where that number is not a
\* power of two.
C29_RpsIndexInRange ==
    (outcome.op = "SliceSegmentHeader::from_rbsp_reader" /\ outcome.kind = "Ok") =>
        LET num == arguments.slice_segment_context.num_short_term_ref_pic_sets
        IN  /\ outcome.value.curr_rps_idx <= num
            /\ is_some(outcome.value.short_term_ref_pic_set_idx)
                    => unwrap(outcome.value.short_term_ref_pic_set_idx) < num

\* Bit i of a 16-bit mask.
MaskBit(mask, i) == (mask \div Shl1(i)) % 2 = 1

\* C30: for a set read in the direct form, bitmask_used_by_curr_pic_s0_flag
\* returns the 16-bit mask whose bit i is used_by_curr_pic_s0_flag[i] and
\* bitmask_used_by_curr_pic_s1_flag the mask whose bit i is
\* used_by_curr_pic_s1_flag[i], for i in 0..15; the bits at or above the
\* number of negative, respectively positive, pictures are 0.
C30_BitmaskOfFlags ==
    /\ outcome.op = "bitmask_used_by_curr_pic_s0_flag" =>
        /\ outcome.value \in 0..65535
        /\ \A i \in 0..15 :
            MaskBit(outcome.value, i) <=>
                (i < outcome.self.num_negative_pics
                    /\ outcome.self.used_by_curr_pic_s0_flag[i + 1])
    /\ outcome.op = "bitmask_used_by_curr_pic_s1_flag" =>
        /\ outcome.value \in 0..65535
        /\ \A i \in 0..15 :
            MaskBit(outcome.value, i) <=>
                (i < outcome.self.num_positive_pics
                    /\ outcome.self.used_by_curr_pic_s1_flag[i + 1])

(***************************************************************************)
(* ParamSetSpec: one call of the VPS, SPS or PPS parser on the payload     *)
(* written for a choice of field values.                                   *)
(***************************************************************************)
ParamSetInit ==
    /\ \/ \E f \in VpsFields :
            /\ input = rbsp_of(vps_bits(f))
            /\ arguments = [op |-> "VideoParameterSet::from_rbsp_reader", written |-> f]
       \/ \E f \in SpsFields :
            /\ input = rbsp_of(sps_bits(f))
            /\ arguments = [op |-> "SequenceParameterSet::from_rbsp_reader", written |-> f]
       \/ \E f \in PpsFields, tid \in {1, 2} :
            /\ input = rbsp_of(pps_bits(f))
            /\ arguments = [op |-> "PictureParameterSet::from_rbsp_reader", written |-> f,
                            nuh_temporal_id_plus1 |-> tid]
    /\ outcome = NoOutcome
    /\ OnlyParser

VideoParameterSetFromRbspReader ==
    /\ arguments.op = "VideoParameterSet::from_rbsp_reader"
    /\ outcome = NoOutcome
    /\ outcome' = Outcome(arguments.op, VideoParameterSet_from_rbsp_reader(input))
    /\ UNCHANGED <<input, arguments, pocVars, framerVars>>

SequenceParameterSetFromRbspReader ==
    /\ arguments.op = "SequenceParameterSet::from_rbsp_reader"
    /\ outcome = NoOutcome
    /\ outcome' = Outcome(arguments.op, SequenceParameterSet_from_rbsp_reader(input))
    /\ UNCHANGED <<input, arguments, pocVars, framerVars>>

PictureParameterSetFromRbspReader ==
    /\ arguments.op = "PictureParameterSet::from_rbsp_reader"
    /\ outcome = NoOutcome
    /\ outcome' = Outcome(arguments.op,
                          PictureParameterSet_from_rbsp_reader(
                              input, arguments.nuh_temporal_id_plus1))
    /\ UNCHANGED <<input, arguments, pocVars, framerVars>>

ParamSetNext ==
    \/ VideoParameterSetFromRbspReader
    \/ SequenceParameterSetFromRbspReader
    \/ PictureParameterSetFromRbspReader

ParamSetSpec == ParamSetInit /\ [][ParamSetNext]_vars

\* The payload written sets a flag or count that gates a construct the
\* parsers do not implement (for a VPS, one that signals the ordering
\* information of every sub-layer and no sub-layer level without a profile,
\* which are the forms vps.rs:62-78 and ptl.rs:138-252 read).
GatesUnimplemented ==
    LET f == arguments.written
    IN  CASE arguments.op = "VideoParameterSet::from_rbsp_reader" ->
                /\ f.sub_layer_ordering_info_present_flag
                /\ \A i \in 1..Len(f.sub_layers) :
                        f.sub_layers[i].level_present => f.sub_layers[i].profile_present
                /\ \/ f.vps_extension_flag
                   \/ (f.vps_timing_info_present_flag /\ f.vps_num_hrd_parameters > 0)
          [] arguments.op = "SequenceParameterSet::from_rbsp_reader" ->
                f.pcm_enabled_flag \/ f.scaling_list_enabled_flag
          [] arguments.op = "PictureParameterSet::from_rbsp_reader" ->
                \/ f.tiles_enabled_flag
                \/ f.pps_scaling_list_data_present_flag
                \/ f.pps_extension_present_flag
          [] OTHER -> FALSE

\* C13: when a VPS, SPS or PPS payload sets tiles_enabled_flag,
\* pcm_enabled_flag, scaling_list_enabled_flag,
\* pps_scaling_list_data_present_flag, vps_extension_flag,
\* pps_extension_present_flag or vps_num_hrd_parameters > 0, the parser fails
\* as unsupported and returns no parameter set: it never returns Ok.
C13_UnimplementedNeverOk ==
    (outcome.op = arguments.op /\ GatesUnimplemented)
        => (outcome.kind = "panic" /\ outcome.value = NoValue)

(***************************************************************************)
(* BaseSpec: the functions of base.rs, each called once: the Exp-Golomb    *)
(* readers on the code word written for a code number, ebsp_to_rbsp on a   *)
(* byte sequence.                                                          *)
(***************************************************************************)
\* Bounds: the code numbers written are 0..MaxCodeNum and a few larger ones;
\* the byte sequences given to ebsp_to_rbsp have at most MaxEbspLen bytes.
MaxCodeNum == 70
MaxEbspLen == 6

CodeNums == (0..MaxCodeNum) \cup {254, 255, 256, 65534, 65535}

\* The bytes of the sequences: the two of the pattern 00 00 03, and another.
EbspBytes == {0, 1, 3}

\* *bit_count when read_exp_golomb_ue_count_bits is called.
BitCounts == {0, 7}

BaseInit ==
    /\ \/ \E code_num \in CodeNums, bit_count \in BitCounts :
            /\ input = rbsp_of(en_exp_golomb_ue(code_num))
            /\ arguments = [op |-> "read_exp_golomb", code_num |-> code_num,
                            bit_count |-> bit_count]
       \/ \E ebsp \in UNION {[1..n -> EbspBytes] : n \in 0..MaxEbspLen} :
            /\ input = ebsp
            /\ arguments = [op |-> "ebsp_to_rbsp"]
    /\ outcome = NoOutcome
    /\ OnlyParser

\* base.rs:29-32.
ReadExpGolombUe ==
    /\ arguments.op = "read_exp_golomb"
    /\ outcome = NoOutcome
    /\ LET r == read_exp_golomb_ue(BitsOf(input), BitReader(0))
       IN  outcome' = [op |-> "read_exp_golomb_ue", kind |-> r.rd.kind, pos |-> r.rd.pos,
                       value |-> r.v]
    /\ UNCHANGED <<input, arguments, pocVars, framerVars>>

\* base.rs:37-45.
ReadExpGolombUeCountBits ==
    /\ arguments.op = "read_exp_golomb"
    /\ outcome = NoOutcome
    /\ LET r == read_exp_golomb_ue_count_bits(BitsOf(input), BitReader(0),
                                              arguments.bit_count)
       IN  outcome' = [op |-> "read_exp_golomb_ue_count_bits", kind |-> r.rd.kind,
                       pos |-> r.rd.pos, value |-> r.v, bit_count |-> r.bit_count]
    /\ UNCHANGED <<input, arguments, pocVars, framerVars>>

\* base.rs:50-57.
ReadExpGolombSe ==
    /\ arguments.op = "read_exp_golomb"
    /\ outcome = NoOutcome
    /\ LET r == read_exp_golomb_se(BitsOf(input), BitReader(0))
       IN  outcome' = [op |-> "read_exp_golomb_se", kind |-> r.rd.kind, pos |-> r.rd.pos,
                       value |-> r.v]
    /\ UNCHANGED <<input, arguments, pocVars, framerVars>>

\* base.rs:9-24.
EbspToRbsp ==
    /\ arguments.op = "ebsp_to_rbsp"
    /\ outcome = NoOutcome
    /\ outcome' = [op |-> "ebsp_to_rbsp", kind |-> "Ok", value |-> ebsp_to_rbsp(input)]
    /\ UNCHANGED <<input, arguments, pocVars, framerVars>>

BaseNext == ReadExpGolombUe \/ ReadExpGolombUeCountBits \/ ReadExpGolombSe \/ EbspToRbsp

BaseSpec == BaseInit /\ [][BaseNext]_vars

\* floor(log2(n + 1)).
FloorLog2Plus1(n) == CHOOSE k \in 0..20 : Shl1(k) <= n + 1 /\ n + 1 < Shl1(k + 1)

\* C14: read_exp_golomb_ue applied to the unsigned order-0 Exp-Golomb code of
\* n (k zero bits, a one bit, k suffix bits, k = floor(log2(n + 1))) returns n,
\* which is 2^k - 1 + suffix, and stops after the code's 2k + 1 bits; '1' gives
\* 0, '00100' gives 3, '0000001000100' gives 67;
\* read_exp_golomb_ue_count_bits returns the same value.
C14_UeRoundTrip ==
    outcome.op \in {"read_exp_golomb_ue", "read_exp_golomb_ue_count_bits"} =>
        LET n == arguments.code_num
            k == FloorLog2Plus1(n)
            bits == BitsOf(input)
        IN  /\ \A q \in 1..k : bits[q] = 0
            /\ bits[k + 1] = 1
            /\ outcome.kind = "Ok"
            /\ outcome.value = n
            /\ outcome.value = Shl1(k) - 1 + BitsValue(bits, k + 1, k)
            /\ outcome.pos = 2 * k + 1
            /\ n = 0 => SubSeq(bits, 1, 1) = <<1>>
            /\ n = 3 => SubSeq(bits, 1, 5) = <<0, 0, 1, 0, 0>>
            /\ n = 67 => SubSeq(bits, 1, 13) = <<0, 0, 0, 0, 0, 0, 1, 0, 0, 0, 1, 0, 0>>

\* read_exp_golomb_ue_count_bits has read '0000001000100' and returned 67.
C14_Witness ==
    /\ outcome.op = "read_exp_golomb_ue_count_bits"
    /\ outcome.kind = "Ok"
    /\ outcome.value = 67
    /\ outcome.pos = 13
    /\ SubSeq(BitsOf(input), 1, 13) = <<0, 0, 0, 0, 0, 0, 1, 0, 0, 0, 1, 0, 0>>

\* The signed integers the code numbers 0..MaxCodeNum stand for.
SignedRange == (0 - (MaxCodeNum \div 2))..((MaxCodeNum + 1) \div 2)

\* C15: read_exp_golomb_se maps the code number k to (k + 1) / 2 when k is
\* odd and to -(k / 2) when k is even (0 -> 0, 1 -> 1, 2 -> -1, 3 -> 2,
\* 4 -> -2, 5 -> 3, 6 -> -3): the code number is recovered from the value,
\* and every signed integer of the range is the value of a code number.
C15_SeMapping ==
    outcome.op = "read_exp_golomb_se" =>
        LET k == arguments.code_num
            v == outcome.value
        IN  /\ outcome.kind = "Ok"
            /\ v = IF k % 2 = 1 THEN (k + 1) \div 2 ELSE 0 - (k \div 2)
            /\ k <= 6 => v = <<0, 1, 0 - 1, 2, 0 - 2, 3, 0 - 3>>[k + 1]
            /\ k = IF v > 0 THEN 2 * v - 1 ELSE 0 - 2 * v
            /\ \A w \in SignedRange : \E j \in 0..MaxCodeNum : signed_of_code_num(j) = w

\* The code number 6, read as -3.
C15_Witness ==
    /\ outcome.op = "read_exp_golomb_se"
    /\ arguments.code_num = 6
    /\ outcome.kind = "Ok"
    /\ outcome.value = 0 - 3
    /\ outcome.pos = 5

\* The byte sequence with the bytes at the positions of the set removed.
Without(bytes, removed) ==
    LET kept == {i \in 1..Len(bytes) : i \notin removed}
        nth(j) == CHOOSE i \in kept : Cardinality({q \in kept : q < i}) = j - 1
    IN  [j \in 1..Cardinality(kept) |-> bytes[nth(j)]]

\* The positions where a left-to-right scan from position i on finds
\* 00 00 03, the scan resuming after each triplet it has found.
RECURSIVE TripletsFrom(_, _)
TripletsFrom(bytes, i) ==
    IF i + 2 > Len(bytes) THEN {}
    ELSE IF SubSeq(bytes, i, i + 2) = <<0, 0, 3>>
    THEN {i} \cup TripletsFrom(bytes, i + 3)
    ELSE TripletsFrom(bytes, i + 1)

HasNoTriplet(bytes) ==
    \A i \in 1..(Len(bytes) - 2) : SubSeq(bytes, i, i + 2) # <<0, 0, 3>>

\* C16: the output of ebsp_to_rbsp is the input with the third byte of each
\* 00 00 03 triplet found by a left-to-right scan removed (the scan resumes
\* after the triplet) and every other byte copied; so the output is the input
\* when the input has no 00 00 03, and otherwise its length is the input's
\* less the number of triplets found.
C16_EbspToRbsp ==
    outcome.op = "ebsp_to_rbsp" =>
        LET triplets == TripletsFrom(input, 1)
        IN  /\ outcome.value = Without(input, {i + 2 : i \in triplets})
            /\ HasNoTriplet(input) => outcome.value = input
            /\ Len(outcome.value) = Len(input) - Cardinality(triplets)

\* 00 00 03 00 00 03: two triplets, the second found after the first.
C16_Witness ==
    /\ outcome.op = "ebsp_to_rbsp"
    /\ input = <<0, 0, 3, 0, 0, 3>>
    /\ outcome.value = <<0, 0, 0, 0>>

\* The call of SliceSegmentHeader::from_rbsp_reader has returned a header.
ReturnedHeader ==
    outcome.op = "SliceSegmentHeader::from_rbsp_reader" /\ outcome.kind = "Ok"

\* The bits of the header written, without what follows the header.
WrittenHeaderLen ==
    Len(slice_segment_bits(arguments.written, arguments.nal_unit_type,
                           arguments.slice_segment_context))
        - Len(arguments.written.rest)

\* The bits of the st_ref_pic_set() written in the header.
WrittenSetLen ==
    Len(st_ref_pic_set_bits(arguments.slice_segment_context.num_short_term_ref_pic_sets,
                            arguments.written.s0, arguments.written.s1))

C18_LsbPresentIffNotIdr ==
    ReturnedHeader =>
        /\ is_some(outcome.value.slice_pic_order_cnt_lsb) <=> ~is_idr(arguments.nal_unit_type)
        /\ ~compute_poc(PocDefault, overflow_checks,
                        arguments.slice_segment_context.log2_max_pic_order_cnt_lsb_minus4,
                        1, outcome.value.nal_unit_type,
                        outcome.value.slice_pic_order_cnt_lsb).panicked

\* C19: in a returned header of a slice segment that is neither IDR nor
\* dependent, curr_rps_idx is the index read from the header when
\* short_term_ref_pic_set_sps_flag is 1 (0 when no index is coded,
\* num_short_term_ref_pic_sets being at most 1), and
\* num_short_term_ref_pic_sets when the flag is 0 and the set is in the header.
C19_CurrRpsIdx ==
    (/\ ReturnedHeader
     /\ ~is_idr(arguments.nal_unit_type)
     /\ outcome.value.dependent_slice_segment_flag # Some(TRUE)) =>
        LET num == arguments.slice_segment_context.num_short_term_ref_pic_sets
            h == outcome.value
        IN  /\ h.short_term_ref_pic_set_sps_flag
                    = Some(arguments.written.short_term_ref_pic_set_sps_flag)
            /\ (h.short_term_ref_pic_set_sps_flag = Some(TRUE) /\ num > 1) =>
                    /\ h.short_term_ref_pic_set_idx
                            = Some(arguments.written.short_term_ref_pic_set_idx)
                    /\ h.curr_rps_idx = arguments.written.short_term_ref_pic_set_idx
            /\ (h.short_term_ref_pic_set_sps_flag = Some(TRUE) /\ num <= 1) =>
                    /\ h.short_term_ref_pic_set_idx = None
                    /\ h.curr_rps_idx = 0
            /\ h.short_term_ref_pic_set_sps_flag = Some(FALSE) =>
                    /\ is_some(h.short_term_ref_pic_set)
                    /\ h.curr_rps_idx = num

\* A CRA slice segment that names the set 2 of the 3 sets of the SPS.
C19_Witness ==
    /\ ReturnedHeader
    /\ arguments.nal_unit_type = CraNut
    /\ arguments.slice_segment_context.num_short_term_ref_pic_sets = 3
    /\ outcome.value.short_term_ref_pic_set_sps_flag = Some(TRUE)
    /\ outcome.value.short_term_ref_pic_set_idx = Some(2)
    /\ outcome.value.curr_rps_idx = 2

(***************************************************************************)
(* PtlSpec: one call of ProfileTierLevel::from_reader on the               *)
(* profile_tier_level() written for a choice of profile and sub-layers,    *)
(* followed by one more byte.                                              *)
(***************************************************************************)
\* Profiles that take the three branches of the constraint region.
PtlProfiles == {1, 2, 4, 5}

PtlSubLayers ==
    SubLayerShapes \cup {a \o b : a \in SubLayerShapes \ {<<>>}, b \in SubLayerShapes \ {<<>>}}

PtlInit ==
    /\ \E profile_idc \in PtlProfiles, sub_layers \in PtlSubLayers :
            /\ input = bytes_of(profile_tier_level_bits(profile_idc, 93, sub_layers)
                                \o ones(8))
            /\ arguments = [op |-> "ProfileTierLevel::from_reader",
                            profile_present_flag |-> TRUE,
                            max_num_sub_layers_minus1 |-> Len(sub_layers),
                            written |-> [profile_idc |-> profile_idc,
                                         sub_layers |-> sub_layers]]
    /\ outcome = NoOutcome
    /\ OnlyParser

ProfileTierLevelFromReader ==
    /\ arguments.op = "ProfileTierLevel::from_reader"
    /\ outcome = NoOutcome
    /\ outcome' = Outcome(arguments.op,
                          Parsed(ProfileTierLevel_from_reader(
                                     BitsOf(input), BitReader(0),
                                     arguments.profile_present_flag,
                                     arguments.max_num_sub_layers_minus1)))
    /\ UNCHANGED <<input, arguments, pocVars, framerVars>>

PtlNext == ProfileTierLevelFromReader

PtlSpec == PtlInit /\ [][PtlNext]_vars

\* The number of sub-layers written for which `present` holds.
SubLayerCount(present(_)) ==
    Cardinality({i \in 1..Len(arguments.written.sub_layers) :
                    present(arguments.written.sub_layers[i])})

ProfilePresent(sub) == sub.profile_present

LevelPresent(sub) == sub.level_present

\* C20: ProfileTierLevel::from_reader consumes a number of bits that depends
\* only on max_num_sub_layers_minus1 and the presence flags of the
\* sub-layers: 96 bits of general data (43 of them in each of the three
\* branches of the constraint region), 16 bits of presence flags and
\* alignment when max_num_sub_layers_minus1 > 0, 88 bits per sub-layer whose
\* profile-present flag is set and 8 bits per sub-layer whose level-present
\* flag is set.
C20_PtlBitsConsumed ==
    (outcome.op = "ProfileTierLevel::from_reader" /\ outcome.kind = "Ok") =>
        outcome.pos = 96
                      + (IF arguments.max_num_sub_layers_minus1 > 0 THEN 16 ELSE 0)
                      + 88 * SubLayerCount(ProfilePresent)
                      + 8 * SubLayerCount(LevelPresent)

====
